---- MODULE Spec2Model ----
(***************************************************************************)
(* Model of OutlineSync (src/scripts/sync/sync.js, lines 39-918): the      *)
(* reconciliation of an Outline workspace (users, groups, collections)     *)
(* with the EPFL directory (units of a person, members of the admin group).*)
(* One action per straight-line block or loop iteration of syncUsers,      *)
(* syncAdmins, syncCollections and main; every remote call of a step may   *)
(* fail, which throws to the catch of the enclosing phase.                 *)
(***************************************************************************)
EXTENDS Integers, Sequences, FiniteSets, TLC

\* ------------------------------------------------------------------ bounds
\* top-level invocations (main, or one phase called directly) per behaviour
MaxCalls == 2
\* injected remote-call failures per behaviour
MaxFaults == 1

\* --------------------------------------------------------------- constants
ADMIN_GROUP_NAME == "admin"
ADMIN_EMAIL == "admin@epfl.ch"
ALLOWED_COLLECTIONS == <<"welcome">>
OUTLINE_ADMIN_GROUP == "wiki-admins"
\* the limit every listing request carries ({limit: 100})
ListLimit == 100

\* String.prototype.toLowerCase on the strings of the model
toLowerCase(s) ==
  CASE s = "Alpha" -> "alpha"
    [] s = "ALPHA" -> "alpha"
    [] s = "Admin" -> "admin"
    [] s = "Welcome" -> "welcome"
    [] s = "B@x.org" -> "b@x.org"
    [] OTHER -> s

\* ----------------------------------------------------------------- helpers
Range(s) == {s[k] : k \in 1..Len(s)}

\* Array.prototype.find: index of the first element satisfying P, 0 if none
RECURSIVE FindFrom(_, _, _)
FindFrom(s, P(_), k) ==
  IF k > Len(s) THEN 0
  ELSE IF P(s[k]) THEN k
  ELSE FindFrom(s, P, k + 1)

NoEntity == [id |-> 0, name |-> ""]

\* findGroupByName / findCollectionByName on a fetched list: the exact match
\* first, then the first match ignoring case, else null
FindByNameExactOnly(list, name) ==
  LET ExactP(g) == g.name = name
      e == FindFrom(list, ExactP, 1)
  IN  IF e > 0 THEN list[e] ELSE NoEntity

FindByName(list, name) ==
  LET ExactP(g) == g.name = name
      LowerP(g) == toLowerCase(g.name) = toLowerCase(name)
      e == FindFrom(list, ExactP, 1)
      l == FindFrom(list, LowerP, 1)
  IN  IF e > 0 THEN list[e]
      ELSE IF l > 0 THEN list[l]
      ELSE NoEntity

\* allowedUnits === null is [isNull |-> TRUE]
NullUnits == [isNull |-> TRUE, list |-> <<>>]
ListUnits(l) == [isNull |-> FALSE, list |-> l]

isUnitAllowedCaseSensitive(unit, allowedUnits) ==
  \/ allowedUnits.isNull
  \/ \E k \in 1..Len(allowedUnits.list) : allowedUnits.list[k] = unit

\* an isUnitAllowed for which no allowlist means no unit
isUnitAllowedWhenListed(unit, allowedUnits) ==
  /\ ~allowedUnits.isNull
  /\ \E k \in 1..Len(allowedUnits.list) :
        toLowerCase(allowedUnits.list[k]) = toLowerCase(unit)

\* lines 272-278
isUnitAllowed(unit, allowedUnits) ==
  \/ allowedUnits.isNull
  \/ \E k \in 1..Len(allowedUnits.list) :
        toLowerCase(allowedUnits.list[k]) = toLowerCase(unit)

\* units.filter((unit) => this.isUnitAllowed(unit, allowedUnits))
RECURSIVE FilterUnits(_, _)
FilterUnits(units, allowedUnits) ==
  IF units = <<>> THEN <<>>
  ELSE (IF isUnitAllowed(Head(units), allowedUnits) THEN <<Head(units)>> ELSE <<>>)
       \o FilterUnits(Tail(units), allowedUnits)

\* ------------------------------------------------------- directory: admins
Person(id, email) == [type |-> "person", id |-> id, email |-> email]
Group(id) == [type |-> "group", id |-> id, email |-> ""]

\* a traversal whose visited set is copied at every call instead of shared:
\* a group is skipped only below itself
RECURSIVE fetchAdminsWithOwnVisited(_, _, _)
RECURSIVE FetchMembersWithOwnVisited(_, _, _)
fetchAdminsWithOwnVisited(group, visitedGroups, graph) ==
  IF group \in visitedGroups
    THEN [admins |-> <<>>, visited |-> visitedGroups, fetched |-> <<>>]
    ELSE LET r == FetchMembersWithOwnVisited(graph[group],
                                             visitedGroups \cup {group}, graph)
         IN  [r EXCEPT !.fetched = <<group>> \o @]

FetchMembersWithOwnVisited(members, visited, graph) ==
  IF members = <<>> THEN [admins |-> <<>>, visited |-> visited, fetched |-> <<>>]
  ELSE LET m == Head(members)
           first == IF m.type = "person"
                      THEN [admins |-> <<[id |-> m.id, email |-> m.email]>>,
                            fetched |-> <<>>]
                      ELSE fetchAdminsWithOwnVisited(m.id, visited, graph)
           rest == FetchMembersWithOwnVisited(Tail(members), visited, graph)
       IN  [admins |-> first.admins \o rest.admins, visited |-> visited,
            fetched |-> first.fetched \o rest.fetched]

\* fetchAdminsRecursively(group, visitedGroups), lines 194-213: the admins
\* found in member order, the visited set, which all recursive calls share,
\* and in fetched the groups whose members were requested, in request order
RECURSIVE fetchAdminsRecursively(_, _, _)
RECURSIVE FetchMembers(_, _, _)
fetchAdminsRecursively(group, visitedGroups, graph) ==
  IF group \in visitedGroups
    THEN [admins |-> <<>>, visited |-> visitedGroups, fetched |-> <<>>]
    ELSE LET r == FetchMembers(graph[group], visitedGroups \cup {group}, graph)
         IN  [r EXCEPT !.fetched = <<group>> \o @]

\* the loop over the members of a fetched group (lines 203-210)
FetchMembers(members, visited, graph) ==
  IF members = <<>> THEN [admins |-> <<>>, visited |-> visited, fetched |-> <<>>]
  ELSE LET m == Head(members)
           first == IF m.type = "person"
                      THEN [admins |-> <<[id |-> m.id, email |-> m.email]>>,
                            visited |-> visited, fetched |-> <<>>]
                      ELSE IF m.type = "group"
                        THEN fetchAdminsRecursively(m.id, visited, graph)
                        ELSE [admins |-> <<>>, visited |-> visited,
                              fetched |-> <<>>]
           rest == FetchMembers(Tail(members), first.visited, graph)
       IN  [admins |-> first.admins \o rest.admins, visited |-> rest.visited,
            fetched |-> first.fetched \o rest.fetched]

\* a deduplication that keeps every entry
KeepAll(all, k) == all

\* Array.from(new Map(allAdmins.map((admin) => [admin.id, admin])).values()):
\* one entry per id, at the place of the id's first occurrence, holding the
\* id's last value
RECURSIVE UniqueById(_, _)
UniqueById(all, k) ==
  IF k > Len(all) THEN <<>>
  ELSE IF \E h \in 1..(k - 1) : all[h].id = all[k].id
    THEN UniqueById(all, k + 1)
    ELSE LET last == CHOOSE h \in k..Len(all) :
                       /\ all[h].id = all[k].id
                       /\ \A h2 \in (h + 1)..Len(all) : all[h2].id # all[k].id
         IN  <<all[last]>> \o UniqueById(all, k + 1)

\* getAllAdmins when no directory call fails; any failure returns []
getAllAdmins(graph) ==
  UniqueById(fetchAdminsRecursively(OUTLINE_ADMIN_GROUP, {}, graph).admins, 1)

\* ------------------------------------------------------------------- state
VARIABLES
  \* the workspace (Outline)
  users,        \* users.list: the accounts [id, email], in list order
  role,         \* role[u]: "admin" or "viewer"
  groups,       \* groups.list: the groups [id, name], in list order
  members,      \* members[g]: the user ids in group g
  colls,        \* collections.list: the collections [id, name]
  links,        \* links[c]: the [groupId, permission] memberships of c
  nextId,       \* the id the next created group or collection gets
  \* the directory (EPFL API) and the configuration
  dirUnits,     \* dirUnits[email]: [found, units] of the person
  dirGroups,    \* dirGroups[g]: the members of directory group g
  unitsFile,    \* EPFL_ALLOWED_UNITS_FILE: [state, content]
  missingVars,  \* the required environment variables that are not set
  allowedCollections,  \* this.ALLOWED_COLLECTIONS
  pageLimit,    \* the limit of the listing requests, in entities
  \* the program
  pc,           \* position in main / the running phase
  caller,       \* "main", or "direct" for a phase invoked on its own
  loc,          \* the local variables of the running phase, and in
                \* lookupFailed the emails whose directory lookup failed
  results,      \* the {success} each phase returned in this invocation
  exitCode,     \* main's exitCode
  \* history
  log,          \* the mutating requests issued in this invocation
  hist,         \* the invocations completed, oldest first
  faults,       \* remote calls that failed so far
  failed,       \* a remote call failed during this invocation
  thrown,       \* per phase of this invocation: the call whose failure
                \* reached the phase's catch, and the step it was in
  ws0,          \* the workspace as this invocation found it
  \* the API key setup (class ApiKeySetup)
  apiKeySetup   \* its database, the Kubernetes secrets and its position

wsVars == <<users, role, groups, members, colls, links, nextId>>
envVars == <<dirUnits, dirGroups, unitsFile, missingVars, allowedCollections,
            pageLimit>>
vars == <<users, role, groups, members, colls, links, nextId, dirUnits,
          dirGroups, unitsFile, missingVars, allowedCollections, pageLimit,
          pc, caller,
          loc, results, exitCode, log, hist, faults, failed, thrown, ws0,
          apiKeySetup>>

\* ----------------------------------------------------- the initial states
U0 == [id |-> "u0", email |-> ADMIN_EMAIL]
U1 == [id |-> "u1", email |-> "a@x.org"]
U2 == [id |-> "u2", email |-> "B@x.org"]

RW == "read_write"
Link(g) == [groupId |-> g, permission |-> RW]
NoMap == [x \in {} |-> {}]

\* workspaces an earlier run or an administrator may have left: no two groups
\* and no two collections with names equal ignoring case
Workspaces ==
  { [groups |-> <<>>, members |-> NoMap, colls |-> <<>>, links |-> NoMap],
    [groups |-> <<[id |-> 1, name |-> "alpha"], [id |-> 2, name |-> "beta"],
                  [id |-> 3, name |-> "admin"]>>,
     members |-> (1 :> {"u1"}) @@ (2 :> {}) @@ (3 :> {"u0", "u2"}),
     colls |-> <<[id |-> 4, name |-> "welcome"], [id |-> 5, name |-> "beta"],
                 [id |-> 6, name |-> "alpha"]>>,
     links |-> (4 :> {}) @@ (5 :> {Link(2)}) @@ (6 :> {Link(1)})],
    [groups |-> <<[id |-> 1, name |-> "Alpha"], [id |-> 2, name |-> "beta"]>>,
     members |-> (1 :> {"u1", "u2"}) @@ (2 :> {"u2"}),
     colls |-> <<[id |-> 4, name |-> "Welcome"], [id |-> 5, name |-> "gamma"]>>,
     links |-> (4 :> {}) @@ (5 :> {})],
    [groups |-> <<[id |-> 1, name |-> "beta"], [id |-> 2, name |-> "admin"]>>,
     members |-> (1 :> {"u1"}) @@ (2 :> {"u1"}),
     colls |-> <<>>, links |-> NoMap] }

Found(units) == [found |-> TRUE, units |-> units]
NotFound == [found |-> FALSE, units |-> <<>>]
Units(a, b) == ("a@x.org" :> a) @@ ("B@x.org" :> b)
Roles(A) == [u \in {"u0", "u1", "u2"} |-> IF u \in A THEN "admin" ELSE "viewer"]

\* directory groups under OUTLINE_ADMIN_GROUP: empty; nested with a cycle;
\* a subgroup listed twice and nested inside itself, with a person listed
\* in two groups
DirGroups ==
  { ("wiki-admins" :> <<>>) @@ ("sub" :> <<>>),
    ("wiki-admins" :> <<Group("sub"), Person("s11", "a@x.org")>>)
       @@ ("sub" :> <<Person("s12", "b@x.org"), Group("wiki-admins")>>),
    ("wiki-admins" :> <<Person("s13", "z@x.org"), Group("sub"), Group("sub")>>)
       @@ ("sub" :> <<Person("s13", "z@x.org"), Person("s12", "B@x.org"),
                      Group("sub")>>) }

\* EPFL_ALLOWED_UNITS_FILE: unset, naming no file, a file that is no JSON
\* array, or a JSON array of unit names
File(state, content) == [state |-> state, content |-> content]

\* the inputs of a behaviour: the accounts, their roles, what the directory
\* holds for the persons behind the two synced accounts, the directory's
\* admin groups and the allowlist file
Inputs ==
  \* two synced accounts, every directory answer, allowlist absent or valid
  { [users |-> <<U0, U1, U2>>, role |-> Roles(A), dirUnits |-> Units(a, b),
     dirGroups |-> g, unitsFile |-> f] :
      A \in {{"u0"}, {"u0", "u1", "u2"}},
      a \in {Found(<<"alpha">>), Found(<<"Alpha", "beta">>),
             Found(<<"Admin">>), NotFound},
      b \in {Found(<<>>), Found(<<"alpha">>)},
      g \in DirGroups,
      f \in {File("unset", <<>>), File("array", <<"ALPHA">>)} }
  \cup
  \* the allowlist file is missing or malformed
  { [users |-> <<U0, U1, U2>>, role |-> Roles({"u0"}),
     dirUnits |-> Units(Found(<<"Alpha", "beta">>), Found(<<"alpha">>)),
     dirGroups |-> g, unitsFile |-> f] :
      g \in {d \in DirGroups : d["sub"] # <<>>},
      f \in {File("missing", <<>>), File("malformed", <<>>)} }
  \cup
  \* the workspace holds no account but the ADMIN_EMAIL one
  { [users |-> <<U0>>, role |-> Roles({"u0"}),
     dirUnits |-> Units(NotFound, NotFound),
     dirGroups |-> g, unitsFile |-> File("unset", <<>>)] :
      g \in DirGroups }

\* the input the non-default configurations are explored with
BaseInput ==
  [users |-> <<U0, U1, U2>>, role |-> Roles({"u0"}),
   dirUnits |-> Units(Found(<<"alpha">>), Found(<<>>)),
   dirGroups |-> ("wiki-admins" :> <<>>) @@ ("sub" :> <<>>),
   unitsFile |-> File("unset", <<>>)]

\* the configuration: which required environment variables are missing, and
\* ALLOWED_COLLECTIONS (line 81: the variable split at commas, or the default)
Configuration(missing, allowed) ==
  [missingVars |-> missing, allowedCollections |-> allowed]

DefaultConfiguration == Configuration({}, ALLOWED_COLLECTIONS)

Configurations ==
  { DefaultConfiguration,
    Configuration({"EPFL_API_URL"}, ALLOWED_COLLECTIONS),
    Configuration({"OUTLINE_ADMIN_GROUP"}, ALLOWED_COLLECTIONS),
    Configuration({}, <<"Welcome">>) }

LocInit ==
  [activeUsers |-> <<>>, existingGroups |-> <<>>, allowedUnits |-> NullUnits,
   userUnitsMap |-> [e \in {} |-> <<>>], validGroupNames |-> {},
   adminGroup |-> NoEntity, admins |-> <<>>, existingAdminUsers |-> <<>>,
   groupMembers |-> <<>>, collections |-> <<>>, groupNames |-> {},
   lookupFailed |-> {}, i |-> 1, j |-> 1]

NoResults == [users |-> "none", admins |-> "none", collections |-> "none"]

NoCall == [call |-> "none", at |-> "none"]
NoThrown == [users |-> NoCall, admins |-> NoCall, collections |-> NoCall]

\* the workspace without the bookkeeping of the model
Snapshot(g, m, r, c, l) ==
  [groups |-> g, members |-> m, role |-> r, colls |-> c, links |-> l]

\* the API key setup is another program: the sync never runs it
NoSetup == [pc |-> "none"]

\* the state after construction, for the given inputs and workspaces and
\* the given limit of the listing requests
Start(inputs, workspaces, limit) ==
  /\ \E in \in inputs :
       /\ users = in.users
       /\ role = in.role
       /\ dirUnits = in.dirUnits
       /\ dirGroups = in.dirGroups
       /\ unitsFile = in.unitsFile
  /\ \E c \in Configurations :
       /\ c # DefaultConfiguration =>
            /\ users = BaseInput.users /\ role = BaseInput.role
            /\ dirUnits = BaseInput.dirUnits /\ dirGroups = BaseInput.dirGroups
            /\ unitsFile = BaseInput.unitsFile
       /\ missingVars = c.missingVars
       /\ allowedCollections = c.allowedCollections
  /\ pageLimit = limit
  /\ \E w \in workspaces :
       /\ groups = w.groups
       /\ members = [g \in DOMAIN w.members |->
                       w.members[g] \cap {users[k].id : k \in 1..Len(users)}]
       /\ colls = w.colls
       /\ links = w.links
  /\ LET ids == {groups[k].id : k \in 1..Len(groups)}
                   \cup {colls[k].id : k \in 1..Len(colls)}
     IN  nextId = 1 + (IF ids = {} THEN 0
                       ELSE CHOOSE m \in ids : \A x \in ids : x <= m)
  /\ pc = "idle"
  /\ caller = "none"
  /\ loc = LocInit
  /\ results = NoResults
  /\ exitCode = 0
  /\ log = <<>>
  /\ hist = <<>>
  /\ faults = 0
  /\ failed = FALSE
  /\ thrown = NoThrown
  /\ ws0 = Snapshot(groups, members, role, colls, links)
  /\ apiKeySetup = NoSetup

Init == Start(Inputs, Workspaces, ListLimit)

\* the listing limit scaled down, and workspaces with more groups, more
\* collections and more accounts than one listing request returns
ScaledListLimit == 2

PagedWorkspaces == {w \in Workspaces : Len(w.groups) > ScaledListLimit}

PagedInputs ==
  { [users |-> <<U0, U1, U2>>, role |-> Roles(A), dirUnits |-> Units(a, b),
     dirGroups |-> g, unitsFile |-> File("unset", <<>>)] :
      A \in {{"u0"}, {"u0", "u1", "u2"}},
      a \in {Found(<<"alpha">>), Found(<<"Alpha", "beta">>)},
      b \in {Found(<<>>), Found(<<"alpha">>)},
      g \in DirGroups }

InitPages == Start(PagedInputs, PagedWorkspaces, ScaledListLimit)

\* ------------------------------------------- the workspace's API (Outline)
\* the workspace and the request log, as one value the steps thread through
World ==
  [groups |-> groups, members |-> members, role |-> role, colls |-> colls,
   links |-> links, nextId |-> nextId, log |-> log]

SetWorld(w) ==
  /\ groups' = w.groups
  /\ members' = w.members
  /\ role' = w.role
  /\ colls' = w.colls
  /\ links' = w.links
  /\ nextId' = w.nextId
  /\ log' = w.log

GroupIds(w) == {w.groups[k].id : k \in 1..Len(w.groups)}
CollIds(w) == {w.colls[k].id : k \in 1..Len(w.colls)}

\* the name of the group or collection with that id, else the name given
NameOf(w, id, name) ==
  LET P(e) == e.id = id
      g == FindFrom(w.groups, P, 1)
      c == FindFrom(w.colls, P, 1)
  IN  IF g > 0 THEN w.groups[g].name
      ELSE IF c > 0 THEN w.colls[c].name
      ELSE name

\* a mutating request as issued: name is the name of the group or
\* collection it targets, size the member count of that group at that
\* moment, ok whether the workspace carried it out
Request(w, op, id, user, name, ok) ==
  [op |-> op, id |-> id, user |-> user, name |-> NameOf(w, id, name),
   size |-> IF id \in DOMAIN w.members THEN Cardinality(w.members[id]) ELSE 0,
   ok |-> ok]

Issue(w, op, id, user, name, ok) ==
  [w EXCEPT !.log = Append(@, Request(w, op, id, user, name, ok))]

\* POST /api/groups.create
createGroup(w, name) ==
  [Issue(w, "groups.create", w.nextId, "", name, TRUE) EXCEPT
     !.groups = Append(@, [id |-> w.nextId, name |-> name]),
     !.members = @ @@ (w.nextId :> {}),
     !.nextId = @ + 1]

\* addUserToGroup: POST /api/groups.add_user; the answer "already a member"
\* (fault label "member") is caught and returns true like a success
addUserToGroup(w, userId, groupId) ==
  [Issue(w, "groups.add_user", groupId, userId, "", TRUE) EXCEPT
     !.members[groupId] = @ \cup {userId}]

\* a remove_user that takes the user out of every group
removeUserFromEveryGroup(w, userId, groupId) ==
  [Issue(w, "groups.remove_user", groupId, userId, "", TRUE) EXCEPT
     !.members = [g \in DOMAIN @ |-> @[g] \ {userId}]]

\* POST /api/groups.remove_user
removeUserFromGroup(w, userId, groupId) ==
  [Issue(w, "groups.remove_user", groupId, userId, "", TRUE) EXCEPT
     !.members[groupId] = @ \ {userId}]

\* POST /api/groups.delete: the group and its memberships go
deleteGroup(w, groupId) ==
  [Issue(w, "groups.delete", groupId, "", "", TRUE) EXCEPT
     !.groups = SelectSeq(@, LAMBDA g : g.id # groupId),
     !.members = [g \in DOMAIN @ \ {groupId} |-> @[g]]]

\* POST /api/users.update_role; the request's name is the role asked for
updateRole(w, userId, r) ==
  [Issue(w, "users.update_role", 0, userId, r, TRUE) EXCEPT !.role[userId] = r]

\* makeUserAdmin: users.info, then update_role unless the role is admin
makeUserAdmin(w, userId) ==
  IF w.role[userId] = "admin" THEN w ELSE updateRole(w, userId, "admin")

\* removeUserAdmin: users.info, then update_role only if the role is admin
removeUserAdmin(w, userId) ==
  IF w.role[userId] # "admin" THEN w ELSE updateRole(w, userId, "viewer")

\* POST /api/collections.create
createCollection(w, name) ==
  [Issue(w, "collections.create", w.nextId, "", name, TRUE) EXCEPT
     !.colls = Append(@, [id |-> w.nextId, name |-> name]),
     !.links = @ @@ (w.nextId :> {}),
     !.nextId = @ + 1]

\* collections.add_group that ignores the permission asked for
addGroupToCollectionReadOnly(w, groupId, collectionId, permission) ==
  [Issue(w, "collections.add_group", collectionId, "", "", TRUE) EXCEPT
     !.links[collectionId] =
        {l \in @ : l.groupId # groupId}
          \cup {[groupId |-> groupId, permission |-> "read"]}]

\* POST /api/collections.add_group
addGroupToCollection(w, groupId, collectionId, permission) ==
  [Issue(w, "collections.add_group", collectionId, "", "", TRUE) EXCEPT
     !.links[collectionId] =
        {l \in @ : l.groupId # groupId}
          \cup {[groupId |-> groupId, permission |-> permission]}]

\* POST /api/collections.delete
deleteCollection(w, collectionId) ==
  [Issue(w, "collections.delete", collectionId, "", "", TRUE) EXCEPT
     !.colls = SelectSeq(@, LAMBDA c : c.id # collectionId),
     !.links = [c \in DOMAIN @ \ {collectionId} |-> @[c]]]

\* a listing request {limit: 100}: one request, whose answer holds the
\* first entities up to the limit
FirstPage(list) ==
  IF Len(list) <= pageLimit THEN list ELSE SubSeq(list, 1, pageLimit)

\* getAllGroups, getAllCollections: groups.list, collections.list
getAllGroups(list) == FirstPage(list)
getAllCollections(list) == FirstPage(list)

\* getAllUsers: users.list without the ADMIN_EMAIL account
getAllUsers(list) == SelectSeq(FirstPage(list), LAMBDA u : u.email # ADMIN_EMAIL)

\* getAllAdminUsers: users.list {role: admin} without the ADMIN_EMAIL account
getAllAdminUsers(list, roles) ==
  SelectSeq(FirstPage(SelectSeq(list, LAMBDA u : roles[u.id] = "admin")),
            LAMBDA u : u.email # ADMIN_EMAIL)

\* findUserByEmail on the fetched list
NoUser == [id |-> "", email |-> ""]
findUserByEmail(list, email) ==
  LET P(u) == u.email = email
      k == FindFrom(getAllUsers(list), P, 1)
  IN  IF k > 0 THEN getAllUsers(list)[k] ELSE NoUser

\* getGroupMembers: groups.memberships of an existing group
getGroupMembers(w, list, groupId) ==
  FirstPage(SelectSeq(list, LAMBDA u : u.id \in w.members[groupId]))

\* getAllowedUnits: null when no file is configured; [] when the file does
\* not exist and, through the catch, when it does not parse to an array
getAllowedUnits(file) ==
  CASE file.state = "unset" -> NullUnits
    [] file.state = "missing" -> ListUnits(<<>>)
    [] file.state = "malformed" -> ListUnits(<<>>)
    [] OTHER -> ListUnits(file.content)

\* getUserUnits: [] when the person is unknown and, through the catch, when
\* a directory call fails
getUserUnits(person, callFails) ==
  IF callFails \/ ~person.found THEN <<>> ELSE person.units

\* ----------------------------------------------------------------- control
\* the outcome of a step: the world after it, where the phase goes next
\* ("throw": an exception reaches the phase's catch; "fail", "ok": the phase
\* returns {success: false} or {success: true}), and the phase's locals
R(w, next, l) == [w |-> w, next |-> next, loc |-> l]

\* a fault label names the remote call of the step that fails; "exists" is
\* the answer "already exists" to the step's create call. "none", the
\* answers of the workspace about a deleted group, and "member" (the answer
\* "already a member" to the step's add_user call, which addUserToGroup
\* turns into success) are not injected
Injected(f) == f \notin {"none", "gone.error", "gone.empty", "member"}
IsFailure(f) == f \notin {"none", "gone.empty", "member"}

\* a main that gives up after the first phase that returned failure
AfterPhaseStopsOnFailure(phase) ==
  IF results'[phase] = "failure" THEN "M_exit"
  ELSE CASE phase = "users" -> "A_start"
         [] phase = "admins" -> "C_start"
         [] OTHER -> "M_exit"

\* what main does after a phase returned (lines 875-900)
AfterPhase(phase) ==
  CASE phase = "users" -> "A_start"
    [] phase = "admins" -> "C_start"
    [] OTHER -> "M_exit"

\* main's exitCode after a phase returned (lines 876-877, 885-886, 894-895)
ExitCodeIgnoresPhase(code, ok) == code

ExitCodeAfter(code, ok) == IF ok THEN code ELSE 1

\* the phase returns {success: ok} to main, or to the direct caller; of the
\* phase's locals only the record of the failed lookups is kept
Return(phase, ok) ==
  /\ results' = [results EXCEPT ![phase] = IF ok THEN "success" ELSE "failure"]
  /\ loc' = [LocInit EXCEPT !.lookupFailed = loc.lookupFailed]
  /\ IF caller = "main"
       THEN /\ pc' = AfterPhase(phase)
            /\ exitCode' = ExitCodeAfter(exitCode, ok)
            /\ hist' = hist
       ELSE /\ pc' = "idle"
            /\ exitCode' = exitCode
            /\ hist' = Append(hist, [op |-> phase, clean |-> ~failed',
                                     success |-> ok])
  /\ UNCHANGED caller

Goto(p, l) ==
  /\ pc' = p
  /\ loc' = l
  /\ UNCHANGED <<results, exitCode, hist, caller>>

\* commit the outcome r of a step of phase, taken with fault label f
Apply(phase, r, f) ==
  /\ Injected(f) => faults < MaxFaults
  /\ SetWorld(r.w)
  /\ faults' = IF Injected(f) THEN faults + 1 ELSE faults
  /\ failed' = (failed \/ IsFailure(f))
  /\ thrown' = IF r.next = "throw"
                 THEN [thrown EXCEPT ![phase] = [call |-> f, at |-> pc]]
                 ELSE thrown
  /\ IF r.next \in {"throw", "fail"} THEN Return(phase, FALSE)
     ELSE IF r.next = "ok" THEN Return(phase, TRUE)
     ELSE Goto(r.next, r.loc)
  /\ UNCHANGED <<users, dirUnits, dirGroups, unitsFile, missingVars,
                 allowedCollections, pageLimit, ws0, apiKeySetup>>

\* an invocation starts: nothing of the previous one is kept but hist
Begin(who, p) ==
  /\ pc = "idle"
  /\ Len(hist) < MaxCalls
  /\ pc' = p
  /\ caller' = who
  /\ loc' = LocInit
  /\ results' = NoResults
  /\ exitCode' = 0
  /\ log' = <<>>
  /\ failed' = FALSE
  /\ thrown' = NoThrown
  /\ ws0' = Snapshot(groups, members, role, colls, links)
  /\ UNCHANGED <<users, role, groups, members, colls, links, nextId,
                 dirUnits, dirGroups, unitsFile, missingVars,
                 allowedCollections, pageLimit, hist, faults, apiKeySetup>>

\* lines 864-870: the environment variables main requires
requiredEnvVars ==
  {"OUTLINE_BASE_URL", "OUTLINE_API_TOKEN", "EPFL_API_URL",
   "EPFL_API_USERNAME", "EPFL_API_PASSWORD", "OUTLINE_ADMIN_GROUP"}

ConfigUnchecked(missing) == TRUE

\* lines 866-870: main goes on when none of the required variables is missing
ConfigValid(missing) == missing \cap requiredEnvVars = {}

\* lines 46-48 and 64-66: the constructor accepts the two arguments and the
\* three EPFL variables; it does not read OUTLINE_ADMIN_GROUP
ConstructorAccepts(missing) ==
  missing \cap (requiredEnvVars \ {"OUTLINE_ADMIN_GROUP"}) = {}

\* main(), lines 860-874: the configuration is present, the phases start
Main == ConfigValid(missingVars) /\ Begin("main", "U_start")

\* main(), lines 866-870 and 909-914: a required variable is missing; the
\* throw reaches main's catch, which sets exitCode, before any phase
M_configError ==
  /\ ~ConfigValid(missingVars)
  /\ pc = "idle"
  /\ Len(hist) < MaxCalls
  /\ pc' = "M_exit"
  /\ caller' = "main"
  /\ loc' = LocInit
  /\ results' = NoResults
  /\ exitCode' = 1
  /\ log' = <<>>
  /\ failed' = FALSE
  /\ thrown' = NoThrown
  /\ ws0' = Snapshot(groups, members, role, colls, links)
  /\ UNCHANGED <<users, role, groups, members, colls, links, nextId,
                 dirUnits, dirGroups, unitsFile, missingVars,
                 allowedCollections, pageLimit, hist, faults, apiKeySetup>>

\* a phase invoked on its own (outlineSync.syncUsers() and the like), on an
\* OutlineSync the constructor accepted
CallSyncUsers == ConstructorAccepts(missingVars) /\ Begin("direct", "U_start")
CallSyncAdmins == ConstructorAccepts(missingVars) /\ Begin("direct", "A_start")
CallSyncCollections == ConstructorAccepts(missingVars) /\ Begin("direct", "C_start")

\* main(), lines 901-915: process.exit(exitCode)
M_exit ==
  /\ pc = "M_exit"
  /\ pc' = "idle"
  /\ hist' = Append(hist, [op |-> "main", clean |-> ~failed,
                           success |-> exitCode = 0])
  /\ UNCHANGED <<users, role, groups, members, colls, links, nextId,
                 dirUnits, dirGroups, unitsFile, missingVars,
                 allowedCollections, pageLimit, caller, loc, results,
                 exitCode, log,
                 faults, failed, thrown, ws0, apiKeySetup>>

\* ensureAdminGroup: [w, group] after findGroupByName and, if it found
\* nothing, createGroup
ensureAdminGroup(w) ==
  LET found == FindByName(getAllGroups(w.groups), ADMIN_GROUP_NAME)
  IN  IF found.id # 0 THEN [w |-> w, group |-> found]
      ELSE [w |-> createGroup(w, ADMIN_GROUP_NAME),
            group |-> [id |-> w.nextId, name |-> ADMIN_GROUP_NAME]]

EnsureAdminFaults(w) ==
  {"groups.list"} \cup
    (IF FindByName(getAllGroups(w.groups), ADMIN_GROUP_NAME).id = 0
       THEN {"groups.create", "exists"} ELSE {})

\* ----------------------------------------------------------- syncUsers
\* a syncUsers that makes sure of the admin group before its listings
U_startStepEnsuresAdminFirst(f) ==
  LET activeUsers == getAllUsers(users)
      e == ensureAdminGroup(World)
  IN  IF f # "none" THEN R(e.w, "throw", loc)
      ELSE IF activeUsers = <<>> THEN R(e.w, "fail", loc)
      ELSE R(e.w, "U_units",
             [loc EXCEPT !.activeUsers = activeUsers,
                         !.existingGroups = getAllGroups(e.w.groups),
                         !.allowedUnits = getAllowedUnits(unitsFile),
                         !.i = 1])

\* a syncUsers that returns success when it lists no user
U_startStepEmptyIsSuccess(f) ==
  LET activeUsers == getAllUsers(users)
  IN  IF f # "none" THEN R(World, "throw", loc)
      ELSE IF activeUsers = <<>> THEN R(World, "ok", loc)
      ELSE R(World, "U_units",
             [loc EXCEPT !.activeUsers = activeUsers,
                         !.existingGroups = getAllGroups(groups),
                         !.allowedUnits = getAllowedUnits(unitsFile),
                         !.i = 1])

\* lines 582-598: the listings, the allowlist, the empty-users return
U_startStep(f) ==
  LET activeUsers == getAllUsers(users)
  IN  IF f # "none" THEN R(World, "throw", loc)
      ELSE IF activeUsers = <<>> THEN R(World, "fail", loc)
      ELSE R(World, "U_units",
             [loc EXCEPT !.activeUsers = activeUsers,
                         !.existingGroups = getAllGroups(groups),
                         !.allowedUnits = getAllowedUnits(unitsFile),
                         !.i = 1])

U_start ==
  /\ pc = "U_start"
  /\ \E f \in {"none", "users.list", "groups.list"} :
       Apply("users", U_startStep(f), f)

\* the same loop with no catch in getUserUnits: a failed lookup throws
U_unitsStepAborts(f) ==
  LET user == loc.activeUsers[loc.i]
      units == getUserUnits(dirUnits[user.email], FALSE)
      filteredUnits == IF loc.allowedUnits.isNull THEN units
                       ELSE FilterUnits(units, loc.allowedUnits)
      map == [e \in DOMAIN loc.userUnitsMap \cup {user.email} |->
                IF e = user.email THEN filteredUnits ELSE loc.userUnitsMap[e]]
  IN  IF f # "none" THEN R(World, "throw", loc)
      ELSE IF loc.i < Len(loc.activeUsers)
        THEN R(World, "U_units", [loc EXCEPT !.userUnitsMap = map, !.i = @ + 1])
        ELSE R(World, "U_assign",
               [loc EXCEPT !.userUnitsMap = map, !.i = 1, !.j = 1,
                  !.validGroupNames = {toLowerCase(ADMIN_GROUP_NAME)}])

\* lines 603-624: one user's units, filtered; after the last user,
\* validGroupNames is seeded with the admin group's name
U_unitsStep(f) ==
  LET user == loc.activeUsers[loc.i]
      units == getUserUnits(dirUnits[user.email], f # "none")
      filteredUnits == IF loc.allowedUnits.isNull THEN units
                       ELSE FilterUnits(units, loc.allowedUnits)
      map == [e \in DOMAIN loc.userUnitsMap \cup {user.email} |->
                IF e = user.email THEN filteredUnits ELSE loc.userUnitsMap[e]]
      lost == IF f # "none" THEN loc.lookupFailed \cup {user.email}
              ELSE loc.lookupFailed
  IN  IF loc.i < Len(loc.activeUsers)
        THEN R(World, "U_units",
               [loc EXCEPT !.userUnitsMap = map, !.lookupFailed = lost,
                           !.i = @ + 1])
        ELSE R(World, "U_assign",
               [loc EXCEPT !.userUnitsMap = map, !.lookupFailed = lost,
                  !.i = 1, !.j = 1,
                  !.validGroupNames = {toLowerCase(ADMIN_GROUP_NAME)}])

U_units ==
  /\ pc = "U_units"
  /\ \E f \in {"none", "directory"} : Apply("users", U_unitsStep(f), f)

\* lines 626-644: one (user, unit) pair: find or create the group, add the
\* user, record the name
U_assignFaults ==
  IF loc.i > Len(loc.activeUsers) THEN {"none"}
  ELSE LET unitsForUser == loc.userUnitsMap[loc.activeUsers[loc.i].email]
       IN  IF loc.j > Len(unitsForUser) THEN {"none"}
           ELSE LET found == FindByName(getAllGroups(groups), unitsForUser[loc.j])
                IN  {"none", "groups.list", "groups.add_user"} \cup
                    (IF found.id = 0 THEN {"groups.create", "exists"}
                     ELSE IF loc.activeUsers[loc.i].id \in members[found.id]
                       THEN {"member"} ELSE {})

U_assignStep(f) ==
  IF loc.i > Len(loc.activeUsers)
    THEN R(World, "U_ensureAdmin", [loc EXCEPT !.i = 1, !.j = 1])
  ELSE
    LET user == loc.activeUsers[loc.i]
        unitsForUser == loc.userUnitsMap[user.email]
    IN  IF loc.j > Len(unitsForUser)
          THEN R(World, "U_assign", [loc EXCEPT !.i = @ + 1, !.j = 1])
        ELSE
          LET unit == unitsForUser[loc.j]
              found == FindByName(getAllGroups(groups), unit)
              w1 == IF found.id = 0 THEN createGroup(World, unit) ELSE World
              group == IF found.id = 0 THEN [id |-> nextId, name |-> unit]
                       ELSE found
          IN  CASE f = "groups.list" -> R(World, "throw", loc)
                [] f \in {"groups.create", "exists"} ->
                     R(Issue(World, "groups.create", 0, "", unit, FALSE),
                       "throw", loc)
                [] f = "groups.add_user" ->
                     R(Issue(w1, "groups.add_user", group.id, user.id, "", FALSE),
                       "throw", loc)
                [] OTHER ->
                     R(addUserToGroup(w1, user.id, group.id), "U_assign",
                       [loc EXCEPT !.j = @ + 1,
                          !.validGroupNames = @ \cup {toLowerCase(unit)}])

U_assign ==
  /\ pc = "U_assign"
  /\ \E f \in U_assignFaults : Apply("users", U_assignStep(f), f)

\* lines 646-647: ensureAdminGroup, getAllAdmins ([] when the directory fails)
U_ensureAdminStep(f) ==
  LET e == ensureAdminGroup(World)
  IN  CASE f = "groups.list" -> R(World, "throw", loc)
        [] f \in {"groups.create", "exists"} ->
             R(Issue(World, "groups.create", 0, "", ADMIN_GROUP_NAME, FALSE),
               "throw", loc)
        [] OTHER ->
             R(e.w, "U_admins",
               [loc EXCEPT !.adminGroup = e.group, !.i = 1,
                  !.admins = IF f = "directory" THEN <<>>
                             ELSE getAllAdmins(dirGroups)])

U_ensureAdmin ==
  /\ pc = "U_ensureAdmin"
  /\ \E f \in {"none", "directory"} \cup EnsureAdminFaults(World) :
       Apply("users", U_ensureAdminStep(f), f)

\* lines 649-656: one directory admin: the account with that email, if any,
\* joins the admin group and gets the admin role
U_adminsFaults ==
  IF loc.i > Len(loc.admins) THEN {"none"}
  ELSE LET user == findUserByEmail(users, loc.admins[loc.i].email)
       IN  {"none", "users.list"} \cup
           (IF user.id = "" THEN {}
            ELSE {"groups.add_user", "users.info"} \cup
                 (IF user.id \in members[loc.adminGroup.id] THEN {"member"}
                  ELSE {}) \cup
                 (IF role[user.id] # "admin" THEN {"users.update_role"} ELSE {}))

U_adminsStep(f) ==
  IF loc.i > Len(loc.admins) THEN R(World, "U_delete", [loc EXCEPT !.i = 1])
  ELSE
    LET admin == loc.admins[loc.i]
        user == findUserByEmail(users, admin.email)
        w1 == addUserToGroup(World, user.id, loc.adminGroup.id)
        next == [loc EXCEPT !.i = @ + 1]
    IN  CASE f = "users.list" -> R(World, "throw", loc)
          [] f \in {"none", "member"} /\ user.id = "" -> R(World, "U_admins", next)
          [] f = "groups.add_user" ->
               R(Issue(World, "groups.add_user", loc.adminGroup.id, user.id,
                       "", FALSE), "throw", loc)
          [] f = "users.info" -> R(w1, "throw", loc)
          [] f = "users.update_role" ->
               R(Issue(w1, "users.update_role", 0, user.id, "admin", FALSE),
                 "throw", loc)
          [] OTHER -> R(makeUserAdmin(w1, user.id), "U_admins", next)

U_admins ==
  /\ pc = "U_admins"
  /\ \E f \in U_adminsFaults : Apply("users", U_adminsStep(f), f)

IsObsoleteCaseSensitive(group, validGroupNames) ==
  /\ toLowerCase(group.name) # toLowerCase(ADMIN_GROUP_NAME)
  /\ group.name \notin validGroupNames

\* the test of line 665 on a group of existingGroups
IsObsolete(group, validGroupNames) ==
  /\ toLowerCase(group.name) # toLowerCase(ADMIN_GROUP_NAME)
  /\ toLowerCase(group.name) \notin validGroupNames

\* lines 658-669: one group of existingGroups: deleted when it is not the
\* admin group and its name is not in validGroupNames
U_deleteFaults ==
  IF loc.i > Len(loc.existingGroups) THEN {"none"}
  ELSE IF IsObsolete(loc.existingGroups[loc.i], loc.validGroupNames)
    THEN {"none", "groups.delete"}
    ELSE {"none"}

U_deleteStep(f) ==
  IF loc.i > Len(loc.existingGroups)
    THEN R(World, "U_pruneFetch", [loc EXCEPT !.i = 1])
  ELSE
    LET group == loc.existingGroups[loc.i]
        next == [loc EXCEPT !.i = @ + 1]
    IN  IF ~IsObsolete(group, loc.validGroupNames)
          THEN R(World, "U_delete", next)
        ELSE IF f = "groups.delete"
          THEN R(Issue(World, "groups.delete", group.id, "", group.name, FALSE),
                 "throw", loc)
        ELSE R(deleteGroup(World, group.id), "U_delete", next)

U_delete ==
  /\ pc = "U_delete"
  /\ \E f \in U_deleteFaults : Apply("users", U_deleteStep(f), f)

\* line 674: the members of one group of existingGroups; a group deleted by
\* the loop before is unknown to the workspace, which answers with an error
\* or with no members
U_pruneFetchFaults ==
  IF loc.i > Len(loc.existingGroups) THEN {"none"}
  ELSE IF loc.existingGroups[loc.i].id \in GroupIds(World)
    THEN {"none", "groups.memberships"}
    ELSE {"gone.error", "gone.empty"}

\* a fetch that, for a group the workspace no longer knows, goes on with the
\* members the group had when the invocation started
U_pruneFetchStepStale(f) ==
  IF loc.i > Len(loc.existingGroups) THEN R(World, "ok", loc)
  ELSE
    LET group == loc.existingGroups[loc.i]
        groupMembers ==
          IF f = "none" THEN getGroupMembers(World, users, group.id)
          ELSE IF f = "gone.empty"
            THEN SelectSeq(users, LAMBDA u : u.id \in ws0.members[group.id])
            ELSE <<>>
    IN  IF f \in {"groups.memberships", "gone.error"} THEN R(World, "throw", loc)
        ELSE IF groupMembers = <<>>
          THEN R(World, "U_pruneFetch", [loc EXCEPT !.i = @ + 1])
        ELSE R(World, "U_pruneMember",
               [loc EXCEPT !.groupMembers = groupMembers, !.j = 1])

U_pruneFetchStep(f) ==
  IF loc.i > Len(loc.existingGroups) THEN R(World, "ok", loc)
  ELSE
    LET group == loc.existingGroups[loc.i]
        groupMembers == IF f = "none" THEN getGroupMembers(World, users, group.id)
                        ELSE <<>>
    IN  IF f \in {"groups.memberships", "gone.error"} THEN R(World, "throw", loc)
        ELSE IF groupMembers = <<>>
          THEN R(World, "U_pruneFetch", [loc EXCEPT !.i = @ + 1])
        ELSE R(World, "U_pruneMember",
               [loc EXCEPT !.groupMembers = groupMembers, !.j = 1])

U_pruneFetch ==
  /\ pc = "U_pruneFetch"
  /\ \E f \in U_pruneFetchFaults : Apply("users", U_pruneFetchStep(f), f)

\* line 678 / line 765: the email is one of the directory admins' emails
IsDirectoryAdmin(admins, email) ==
  \E k \in 1..Len(admins) : admins[k].email = email

\* the same test with the unit and the group name compared letter for letter
ShouldLeaveGroupCaseSensitive(member, groupName, activeUsers, userUnitsMap) ==
  LET P(u) == u.id = member.id
      k == FindFrom(activeUsers, P, 1)
  IN  /\ k > 0
      /\ LET memberUnits == userUnitsMap[activeUsers[k].email]
         IN  ~\E h \in 1..Len(memberUnits) : memberUnits[h] = groupName

\* lines 687-691: the member is a listed user whose filtered units do not
\* include the group's name, ignoring case
ShouldLeaveGroup(member, groupName, activeUsers, userUnitsMap) ==
  LET P(u) == u.id = member.id
      k == FindFrom(activeUsers, P, 1)
  IN  /\ k > 0
      /\ LET memberUnits == userUnitsMap[activeUsers[k].email]
         IN  ~\E h \in 1..Len(memberUnits) :
                 toLowerCase(memberUnits[h]) = toLowerCase(groupName)

\* lines 676-701: one member of the group: out of the admin group (and of
\* the admin role) when no directory admin has the email; out of a unit
\* group when the member's units do not include it
U_pruneMemberFaults ==
  LET group == loc.existingGroups[loc.i]
      member == loc.groupMembers[loc.j]
  IN  IF toLowerCase(group.name) = toLowerCase(ADMIN_GROUP_NAME)
        THEN IF IsDirectoryAdmin(loc.admins, member.email) THEN {"none"}
             ELSE {"none", "groups.remove_user", "users.info"} \cup
                  (IF role[member.id] = "admin" THEN {"users.update_role"} ELSE {})
        ELSE IF ShouldLeaveGroup(member, group.name, loc.activeUsers,
                                 loc.userUnitsMap)
          THEN {"none", "groups.remove_user"}
          ELSE {"none"}

U_pruneMemberStep(f) ==
  LET group == loc.existingGroups[loc.i]
      member == loc.groupMembers[loc.j]
      next == IF loc.j < Len(loc.groupMembers) THEN [loc EXCEPT !.j = @ + 1]
              ELSE [loc EXCEPT !.i = @ + 1, !.j = 1, !.groupMembers = <<>>]
      nextPc == IF loc.j < Len(loc.groupMembers) THEN "U_pruneMember"
                ELSE "U_pruneFetch"
      w1 == removeUserFromGroup(World, member.id, group.id)
  IN  CASE f = "groups.remove_user" ->
             R(Issue(World, "groups.remove_user", group.id, member.id, "", FALSE),
               "throw", loc)
        [] f = "users.info" -> R(w1, "throw", loc)
        [] f = "users.update_role" ->
             R(Issue(w1, "users.update_role", 0, member.id, "viewer", FALSE),
               "throw", loc)
        [] OTHER ->
             IF toLowerCase(group.name) = toLowerCase(ADMIN_GROUP_NAME)
               THEN IF IsDirectoryAdmin(loc.admins, member.email)
                      THEN R(World, nextPc, next)
                      ELSE R(removeUserAdmin(w1, member.id), nextPc, next)
               ELSE IF ShouldLeaveGroup(member, group.name, loc.activeUsers,
                                        loc.userUnitsMap)
                      THEN R(w1, nextPc, next)
                      ELSE R(World, nextPc, next)

U_pruneMember ==
  /\ pc = "U_pruneMember"
  /\ \E f \in U_pruneMemberFaults : Apply("users", U_pruneMemberStep(f), f)

\* ----------------------------------------------------------- syncAdmins
\* lines 739-747: the directory admins ([] when the directory fails), the
\* accounts with the admin role, the admin group
A_startStep(f) ==
  LET e == ensureAdminGroup(World)
  IN  CASE f \in {"users.list", "groups.list"} -> R(World, "throw", loc)
        [] f \in {"groups.create", "exists"} ->
             R(Issue(World, "groups.create", 0, "", ADMIN_GROUP_NAME, FALSE),
               "throw", loc)
        [] OTHER ->
             R(e.w, "A_promote",
               [loc EXCEPT !.adminGroup = e.group, !.i = 1,
                  !.existingAdminUsers = getAllAdminUsers(users, role),
                  !.admins = IF f = "directory" THEN <<>>
                             ELSE getAllAdmins(dirGroups)])

A_start ==
  /\ pc = "A_start"
  /\ \E f \in {"none", "directory", "users.list"} \cup EnsureAdminFaults(World) :
       Apply("admins", A_startStep(f), f)

\* lines 749-762: one directory admin: into the admin group, and to the
\* admin role unless the account was listed with it
A_promoteFaults ==
  IF loc.i > Len(loc.admins) THEN {"none"}
  ELSE LET user == findUserByEmail(users, loc.admins[loc.i].email)
           isAdminAlready == \E k \in 1..Len(loc.existingAdminUsers) :
                                loc.existingAdminUsers[k].id = user.id
       IN  {"none", "users.list"} \cup
           (IF user.id = "" THEN {}
            ELSE {"groups.add_user"} \cup
                 (IF user.id \in members[loc.adminGroup.id] THEN {"member"}
                  ELSE {}) \cup
                 (IF isAdminAlready THEN {}
                  ELSE {"users.info"} \cup
                       (IF role[user.id] # "admin" THEN {"users.update_role"}
                        ELSE {})))

A_promoteStep(f) ==
  IF loc.i > Len(loc.admins) THEN R(World, "A_demote", [loc EXCEPT !.i = 1])
  ELSE
    LET admin == loc.admins[loc.i]
        user == findUserByEmail(users, admin.email)
        isAdminAlready == \E k \in 1..Len(loc.existingAdminUsers) :
                             loc.existingAdminUsers[k].id = user.id
        w1 == addUserToGroup(World, user.id, loc.adminGroup.id)
        next == [loc EXCEPT !.i = @ + 1]
    IN  CASE f = "users.list" -> R(World, "throw", loc)
          [] f \in {"none", "member"} /\ user.id = "" -> R(World, "A_promote", next)
          [] f = "groups.add_user" ->
               R(Issue(World, "groups.add_user", loc.adminGroup.id, user.id,
                       "", FALSE), "throw", loc)
          [] f = "users.info" -> R(w1, "throw", loc)
          [] f = "users.update_role" ->
               R(Issue(w1, "users.update_role", 0, user.id, "admin", FALSE),
                 "throw", loc)
          [] OTHER ->
               R(IF isAdminAlready THEN w1 ELSE makeUserAdmin(w1, user.id),
                 "A_promote", next)

A_promote ==
  /\ pc = "A_promote"
  /\ \E f \in A_promoteFaults : Apply("admins", A_promoteStep(f), f)

\* lines 764-772: one account listed with the admin role: demoted and out
\* of the admin group when no directory admin has its email
A_demoteFaults ==
  IF loc.i > Len(loc.existingAdminUsers) THEN {"none"}
  ELSE LET existingAdmin == loc.existingAdminUsers[loc.i]
       IN  IF IsDirectoryAdmin(loc.admins, existingAdmin.email) THEN {"none"}
           ELSE {"none", "users.info", "groups.remove_user"} \cup
                (IF role[existingAdmin.id] = "admin" THEN {"users.update_role"}
                 ELSE {})

A_demoteStep(f) ==
  IF loc.i > Len(loc.existingAdminUsers) THEN R(World, "ok", loc)
  ELSE
    LET existingAdmin == loc.existingAdminUsers[loc.i]
        w1 == removeUserAdmin(World, existingAdmin.id)
        next == [loc EXCEPT !.i = @ + 1]
    IN  CASE f = "users.info" -> R(World, "throw", loc)
          [] f = "users.update_role" ->
               R(Issue(World, "users.update_role", 0, existingAdmin.id,
                       "viewer", FALSE), "throw", loc)
          [] f = "groups.remove_user" ->
               R(Issue(w1, "groups.remove_user", loc.adminGroup.id,
                       existingAdmin.id, "", FALSE), "throw", loc)
          [] OTHER ->
               IF IsDirectoryAdmin(loc.admins, existingAdmin.email)
                 THEN R(World, "A_demote", next)
                 ELSE R(removeUserFromGroup(w1, existingAdmin.id,
                                            loc.adminGroup.id),
                        "A_demote", next)

A_demote ==
  /\ pc = "A_demote"
  /\ \E f \in A_demoteFaults : Apply("admins", A_demoteStep(f), f)

\* ------------------------------------------------------ syncCollections
\* line 799: the lower-cased names of the groups but the admin group
GroupNames(list) ==
  {toLowerCase(list[k].name) : k \in {h \in 1..Len(list) :
      toLowerCase(list[h].name) # toLowerCase(ADMIN_GROUP_NAME)}}

\* lines 795-804: the groups, the collections, the admin group
C_startStep(f) ==
  LET e == ensureAdminGroup(World)
  IN  CASE f \in {"groups.list", "collections.list"} -> R(World, "throw", loc)
        [] f \in {"groups.create", "exists"} ->
             R(Issue(World, "groups.create", 0, "", ADMIN_GROUP_NAME, FALSE),
               "throw", loc)
        [] OTHER ->
             R(e.w, "C_link",
               [loc EXCEPT !.existingGroups = getAllGroups(groups),
                  !.collections = getAllCollections(colls),
                  !.adminGroup = e.group,
                  !.groupNames = GroupNames(getAllGroups(groups)),
                  !.i = 1])

C_start ==
  /\ pc = "C_start"
  /\ \E f \in {"none", "collections.list"} \cup EnsureAdminFaults(World) :
       Apply("collections", C_startStep(f), f)

\* lines 806-818: one group but the admin group: find or create the
\* collection of its name, link the group to it read-write
C_linkFaults ==
  IF loc.i > Len(loc.existingGroups) THEN {"none"}
  ELSE LET group == loc.existingGroups[loc.i]
       IN  IF toLowerCase(group.name) = toLowerCase(ADMIN_GROUP_NAME)
             THEN {"none"}
             ELSE {"none", "collections.list", "collections.add_group"} \cup
                  (IF FindByName(getAllCollections(colls), group.name).id = 0
                     THEN {"collections.create", "exists"} ELSE {})

C_linkStep(f) ==
  IF loc.i > Len(loc.existingGroups) THEN R(World, "C_delete", [loc EXCEPT !.i = 1])
  ELSE
    LET group == loc.existingGroups[loc.i]
        found == FindByName(getAllCollections(colls), group.name)
        w1 == IF found.id = 0 THEN createCollection(World, group.name) ELSE World
        collection == IF found.id = 0 THEN [id |-> nextId, name |-> group.name]
                      ELSE found
        next == [loc EXCEPT !.i = @ + 1]
    IN  IF toLowerCase(group.name) = toLowerCase(ADMIN_GROUP_NAME)
          THEN R(World, "C_link", next)
        ELSE
          CASE f = "collections.list" -> R(World, "throw", loc)
            [] f \in {"collections.create", "exists"} ->
                 R(Issue(World, "collections.create", 0, "", group.name, FALSE),
                   "throw", loc)
            [] f = "collections.add_group" ->
                 R(Issue(w1, "collections.add_group", collection.id, "",
                         group.name, FALSE), "throw", loc)
            [] OTHER ->
                 R(addGroupToCollection(w1, group.id, collection.id, RW),
                   "C_link", next)

C_link ==
  /\ pc = "C_link"
  /\ \E f \in C_linkFaults : Apply("collections", C_linkStep(f), f)

\* an orphan test that also spares every collection still linked to a group
IsOrphanUnlinked(collection, groupNames) ==
  LET collectionName == toLowerCase(collection.name)
  IN  /\ collectionName # toLowerCase(ADMIN_GROUP_NAME)
      /\ collectionName \notin Range(allowedCollections)
      /\ collectionName \notin groupNames
      /\ links[collection.id] = {}

\* lines 821-833: the collection is not the admin group's, its lower-cased
\* name is no entry of ALLOWED_COLLECTIONS and no group's lower-cased name
IsOrphan(collection, groupNames) ==
  LET collectionName == toLowerCase(collection.name)
  IN  /\ collectionName # toLowerCase(ADMIN_GROUP_NAME)
      /\ collectionName \notin Range(allowedCollections)
      /\ collectionName \notin groupNames

\* lines 820-839: one collection of the listing: deleted when orphan
C_deleteFaults ==
  IF loc.i > Len(loc.collections) THEN {"none"}
  ELSE IF IsOrphan(loc.collections[loc.i], loc.groupNames)
    THEN {"none", "collections.delete"}
    ELSE {"none"}

C_deleteStep(f) ==
  IF loc.i > Len(loc.collections) THEN R(World, "ok", loc)
  ELSE
    LET collection == loc.collections[loc.i]
        next == [loc EXCEPT !.i = @ + 1]
    IN  IF ~IsOrphan(collection, loc.groupNames)
          THEN R(World, "C_delete", next)
        ELSE IF f = "collections.delete"
          THEN R(Issue(World, "collections.delete", collection.id, "",
                       collection.name, FALSE), "throw", loc)
        ELSE R(deleteCollection(World, collection.id), "C_delete", next)

C_delete ==
  /\ pc = "C_delete"
  /\ \E f \in C_deleteFaults : Apply("collections", C_deleteStep(f), f)

\* ------------------------------------------------------- specification
Next ==
  \/ Main
  \/ CallSyncUsers
  \/ CallSyncAdmins
  \/ CallSyncCollections
  \/ M_configError
  \/ U_start
  \/ U_units
  \/ U_assign
  \/ U_ensureAdmin
  \/ U_admins
  \/ U_delete
  \/ U_pruneFetch
  \/ U_pruneMember
  \/ A_start
  \/ A_promote
  \/ A_demote
  \/ C_start
  \/ C_link
  \/ C_delete
  \/ M_exit

Spec == Init /\ [][Next]_vars

\* the same program on workspaces larger than one listing request returns
SpecPages == InitPages /\ [][Next]_vars

\* ------------------------------------------------------------ the claims
\* the accounts the sync lists: all but the ADMIN_EMAIL account
SyncedUsers == {users[k] : k \in {h \in 1..Len(users) : users[h].email # ADMIN_EMAIL}}

\* the allowlist policy: every unit when no allowlist is configured,
\* otherwise the units matching an entry of the loaded list ignoring case
\* (a missing or malformed file loads as the empty list)
AllowedUnit(unit) ==
  CASE unitsFile.state = "unset" -> TRUE
    [] unitsFile.state = "array" ->
         \E k \in 1..Len(unitsFile.content) :
            toLowerCase(unitsFile.content[k]) = toLowerCase(unit)
    [] OTHER -> FALSE

\* the directory's units of the person behind an account, filtered
FilteredUnitSet(u) ==
  IF dirUnits[u.email].found
    THEN {K \in Range(dirUnits[u.email].units) : AllowedUnit(K)}
    ELSE {}

\* the same, as the running phase knows it: empty after a failed lookup
UnitSetInRun(u) ==
  IF u.email \in loc.lookupFailed THEN {} ELSE FilteredUnitSet(u)

HasUnit(unitSet, name) ==
  \E K \in unitSet : toLowerCase(K) = toLowerCase(name)

IsAdminName(name) == toLowerCase(name) = toLowerCase(ADMIN_GROUP_NAME)

InGroupNamed(u, K) ==
  \E k \in 1..Len(groups) :
     /\ toLowerCase(groups[k].name) = toLowerCase(K)
     /\ u.id \in members[groups[k].id]

UnitNames == {"alpha", "Alpha", "beta", "admin", "Admin"}

\* the unit names the directory holds for some person
DirectoryUnitNames == UNION {Range(dirUnits[e].units) : e \in DOMAIN dirUnits}

Requests(op) == {k \in 1..Len(log) : log[k].op = op}

\* syncUsers has just returned, to main or to its direct caller
AfterSyncUsers ==
  /\ results.users # "none"
  /\ results.admins = "none"
  /\ pc \in {"A_start", "idle"}

\* main() has exited
MainExited == pc = "idle" /\ caller = "main"

\* a whole main() has run: its three phases have returned
AfterMain == MainExited /\ results.collections # "none"

\* C1: syncUsers issues no delete for an obsolete group that has a member
C1_NoDeleteOfNonEmptyGroup ==
  \A k \in Requests("groups.delete") : log[k].size = 0

\* C2: syncUsers issues no delete for the admin group, nor for a group
\* whose name is, ignoring case, a unit of the filtered unit set the phase
\* obtained for some listed user
C2_NoDeleteOfValidGroup ==
  pc \in {"U_delete", "U_pruneFetch", "U_pruneMember"} =>
    \A k \in Requests("groups.delete") :
       /\ ~IsAdminName(log[k].name)
       /\ \A u \in SyncedUsers : ~HasUnit(UnitSetInRun(u), log[k].name)

\* a group was deleted while a group of a listed user's unit was kept
C2_Witness ==
  /\ pc = "U_pruneFetch"
  /\ \E k \in Requests("groups.delete") : log[k].ok
  /\ \E h \in 1..Len(loc.existingGroups) :
       /\ loc.existingGroups[h].id \in GroupIds(World)
       /\ \E u \in SyncedUsers :
            /\ HasUnit(UnitSetInRun(u), loc.existingGroups[h].name)
            /\ loc.existingGroups[h].name \notin UnitSetInRun(u)

RECURSIVE ReachableGroups(_, _)
ReachableGroups(S, n) ==
  IF n = 0 THEN S
  ELSE ReachableGroups(
         S \cup {m.id : m \in {x \in UNION {Range(dirGroups[g]) : g \in S} :
                                 x.type = "group"}},
         n - 1)

\* the emails of the persons under OUTLINE_ADMIN_GROUP, through any nesting
DirectoryAdminEmails ==
  {m.email : m \in {x \in UNION {Range(dirGroups[g]) :
                       g \in ReachableGroups({OUTLINE_ADMIN_GROUP},
                                             Cardinality(DOMAIN dirGroups))} :
                     x.type = "person"}}

\* the account's email is, ignoring case, a directory admin's
MatchesDirectoryAdmin(u) ==
  \E e \in DirectoryAdminEmails : toLowerCase(e) = toLowerCase(u.email)

\* C4: after a main() in which no remote call failed, a synced account has
\* the admin role iff its email is in the directory's expanded admin list
C4_AdminRoleIffDirectoryAdmin ==
  (AfterMain /\ ~failed) =>
    \A u \in SyncedUsers : role[u.id] = "admin" <=> MatchesDirectoryAdmin(u)

\* C5: after a main() in which no remote call failed, the admin group's
\* members among the synced accounts are exactly those whose email matches
\* a directory admin
C5_AdminGroupIsDirectoryAdmins ==
  (AfterMain /\ ~failed) =>
    \A k \in 1..Len(groups) :
       IsAdminName(groups[k].name) =>
         {u \in SyncedUsers : u.id \in members[groups[k].id]}
           = {u \in SyncedUsers : MatchesDirectoryAdmin(u)}

\* the account's email is, letter for letter, a directory admin's
ExactDirectoryAdmin(u) == u.email \in DirectoryAdminEmails

\* C4 with emails compared letter for letter, as lines 299 and 765 compare
\* them: the form of C4 that holds
C4_ExactEmails ==
  (AfterMain /\ ~failed) =>
    \A u \in SyncedUsers : role[u.id] = "admin" <=> ExactDirectoryAdmin(u)

\* C6: a syncUsers that directly follows a syncUsers, no remote call having
\* failed in either, issues no mutating request
C6_SecondSyncUsersIssuesNothing ==
  (/\ pc = "idle"
   /\ Len(hist) >= 2
   /\ \A k \in {Len(hist) - 1, Len(hist)} : hist[k].op = "users" /\ hist[k].clean)
    => log = <<>>

C8_MalformedAllowlistAborts ==
  (unitsFile.state = "malformed" /\ caller = "main" /\ ~failed) =>
    /\ log = <<>>
    /\ AfterMain => exitCode # 0

\* C9: a syncUsers in which no remote call failed succeeds and has issued a
\* suspend for every listed account whose person the directory does not know
C9_UnknownPersonSuspended ==
  (/\ AfterSyncUsers
   /\ ~failed
   /\ \E u \in SyncedUsers : ~dirUnits[u.email].found)
    => /\ results.users = "success"
       /\ \A u \in SyncedUsers :
            ~dirUnits[u.email].found =>
              \E k \in Requests("users.suspend") : log[k].user = u.id

\* C10: a syncUsers in which a mutating request failed is reported failed
\* and has still issued the delete of every obsolete group
C10_RemainingMutationsAttempted ==
  (AfterSyncUsers /\ \E k \in 1..Len(log) : ~log[k].ok) =>
    /\ results.users = "failure"
    /\ \A h \in 1..Len(groups) :
         (/\ ~IsAdminName(groups[h].name)
          /\ \A u \in SyncedUsers : ~HasUnit(FilteredUnitSet(u), groups[h].name))
           => \E k \in Requests("groups.delete") : log[k].id = groups[h].id

\* ------------------------------------------------------ claims C11 to C20
\* a workspace state as C11 compares it: the groups by name with their
\* members, the collections by name with the names of the linked groups and
\* the permissions, and the roles; ids do not count
GroupNameOf(ws, id) ==
  LET P(g) == g.id = id
      k == FindFrom(ws.groups, P, 1)
  IN  IF k > 0 THEN ws.groups[k].name ELSE ""

WorkspaceState(ws) ==
  [groups |-> {[name |-> ws.groups[k].name,
                members |-> ws.members[ws.groups[k].id]] :
                 k \in 1..Len(ws.groups)},
   collections |-> {[name |-> ws.colls[k].name,
                     links |-> {[group |-> GroupNameOf(ws, l.groupId),
                                 permission |-> l.permission] :
                                  l \in ws.links[ws.colls[k].id]}] :
                      k \in 1..Len(ws.colls)},
   role |-> ws.role]

Now == Snapshot(groups, members, role, colls, links)

\* two main() in a row, no remote call having failed in either, have
\* finished: ws0 is the workspace the first one produced
AfterTwoCleanMains ==
  /\ pc = "idle"
  /\ Len(hist) >= 2
  /\ \A k \in {Len(hist) - 1, Len(hist)} : hist[k].op = "main" /\ hist[k].clean

\* C11, for the run interrupted after the last of its mutations: a complete
\* run that follows a complete run ends in the workspace state the first
\* one produced
C11_RerunReachesSameState ==
  AfterTwoCleanMains => WorkspaceState(Now) = WorkspaceState(ws0)

\* the same where no person holds a unit named like the admin group
C11_WithoutAdminNamedUnit ==
  (AfterTwoCleanMains /\ \A K \in DirectoryUnitNames : ~IsAdminName(K))
    => WorkspaceState(Now) = WorkspaceState(ws0)

\* the phase is past the loop that fetches the units
PastUnitFetch ==
  pc \in {"U_assign", "U_ensureAdmin", "U_admins", "U_delete", "U_pruneFetch",
          "U_pruneMember"}

UsersSteps ==
  {"U_start", "U_units", "U_assign", "U_ensureAdmin", "U_admins", "U_delete",
   "U_pruneFetch", "U_pruneMember"}
AdminsSteps == {"A_start", "A_promote", "A_demote"}
CollectionsSteps == {"C_start", "C_link", "C_delete"}

\* C13: in main, syncUsers runs before any phase has returned, syncAdmins
\* once syncUsers has returned and nothing else, syncCollections once both
\* have returned, whatever they returned; and a main that passed the
\* configuration check ends with all three phases having returned
C13_PhasesInOrder ==
  caller = "main" =>
    /\ pc \in UsersSteps => results = NoResults
    /\ pc \in AdminsSteps =>
         /\ results.users # "none"
         /\ results.admins = "none" /\ results.collections = "none"
    /\ pc \in CollectionsSteps =>
         /\ results.users # "none" /\ results.admins # "none"
         /\ results.collections = "none"
    /\ (pc \in {"M_exit", "idle"} /\ ConfigValid(missingVars)) =>
         \A p \in DOMAIN results : results[p] # "none"

\* a main in which syncUsers returned failure went through syncAdmins and
\* syncCollections, and they issued requests
C13_Witness ==
  /\ AfterMain
  /\ results.users = "failure"
  /\ results.admins = "success" /\ results.collections = "success"
  /\ \E k \in Requests("collections.add_group") : log[k].ok

\* C14: main's exit code is non-zero as soon as a phase has returned
\* failure, and at the exit it is zero exactly when no required variable is
\* missing and the three phases returned success
C14_ExitStatus ==
  caller = "main" =>
    /\ (\E p \in DOMAIN results : results[p] = "failure") => exitCode # 0
    /\ pc \in {"M_exit", "idle"} =>
         (exitCode = 0 <=>
            /\ missingVars = {}
            /\ \A p \in DOMAIN results : results[p] = "success")

\* a main that exits non-zero because syncCollections alone returned failure
C14_Witness ==
  /\ AfterMain
  /\ exitCode # 0
  /\ results.users = "success" /\ results.admins = "success"
  /\ results.collections = "failure"

\* C15: when the listing of the users or of the groups at the start of
\* syncUsers fails, syncUsers returns failure without having issued a
\* mutating request, and main still runs syncAdmins and syncCollections
C15_ListingFailureAbortsUsersPhaseOnly ==
  thrown.users.at = "U_start" =>
    /\ thrown.users.call \in {"users.list", "groups.list"}
    /\ results.users = "failure"
    /\ AfterSyncUsers => log = <<>>
    /\ caller = "main" =>
         /\ exitCode # 0
         /\ pc \in UsersSteps \cup AdminsSteps \cup CollectionsSteps
               \cup {"M_exit", "idle"}
         /\ pc \in {"M_exit", "idle"} =>
              results.admins # "none" /\ results.collections # "none"

\* a main whose syncUsers failed at the listing of the groups, and whose
\* later phases succeeded and linked a group to a collection
C15_Witness ==
  /\ AfterMain
  /\ thrown.users = [call |-> "groups.list", at |-> "U_start"]
  /\ results.admins = "success" /\ results.collections = "success"
  /\ \E k \in Requests("collections.add_group") : log[k].ok

\* C16: a main started with a required variable missing starts no phase,
\* issues no mutating request, leaves the workspace as it found it and
\* exits non-zero
C16_MissingConfigIsFatal ==
  (caller = "main" /\ missingVars # {}) =>
    /\ pc \in {"M_exit", "idle"}
    /\ results = NoResults
    /\ log = <<>>
    /\ Now = ws0
    /\ exitCode # 0

\* a main has exited for a missing variable, in front of a workspace whose
\* groups it would otherwise have changed
C16_Witness ==
  /\ MainExited
  /\ missingVars # {}
  /\ hist[Len(hist)] = [op |-> "main", clean |-> TRUE, success |-> FALSE]
  /\ \E k \in 1..Len(groups) : groups[k].name = "beta"

\* C17: no phase returns failure because the workspace answered "already a
\* member" to an add_user or "already exists" to a create
C17_ConflictAnswersAreSuccess ==
  \A p \in DOMAIN thrown : thrown[p].call \notin {"member", "exists"}

\* the group of a unit name and its collection: u is in a group named K
\* ignoring case, and a collection named K ignoring case is linked to that
\* group read-write
HasGroupAndCollection(u, K) ==
  \E g \in 1..Len(groups) :
     /\ toLowerCase(groups[g].name) = toLowerCase(K)
     /\ u.id \in members[groups[g].id]
     /\ \E c \in 1..Len(colls) :
          /\ toLowerCase(colls[c].name) = toLowerCase(K)
          /\ [groupId |-> groups[g].id, permission |-> "read_write"]
               \in links[colls[c].id]

ObsoleteEmptyAtStart ==
  {g \in Range(ws0.groups) :
     /\ ~IsAdminName(g.name)
     /\ ws0.members[g.id] = {}
     /\ \A u \in SyncedUsers : ~HasUnit(FilteredUnitSet(u), g.name)}

\* the name is, ignoring case, an entry of the collection allowlist
Allowlisted(name) ==
  \E k \in 1..Len(allowedCollections) :
     toLowerCase(allowedCollections[k]) = toLowerCase(name)

\* a main() has run in which no directory lookup failed and no phase was
\* aborted by a failed call, but possibly by the workspace's error answer
\* about the members of a group the run had deleted
CompleteRun ==
  /\ AfterMain
  /\ loc.lookupFailed = {}
  /\ \A p \in DOMAIN thrown : thrown[p].call \in {"none", "gone.error"}

\* the run issued exactly one delete for the group, and deleted every
\* collection of the group's name that it found and that is not allowlisted
DeletedOnceWithCollection(g) ==
  /\ Cardinality({k \in Requests("groups.delete") : log[k].id = g.id}) = 1
  /\ g.id \notin GroupIds(World)
  /\ \A c \in Range(ws0.colls) :
       (toLowerCase(c.name) = toLowerCase(g.name) /\ ~Allowlisted(c.name)) =>
         /\ c.id \notin CollIds(World)
         /\ \E k \in Requests("collections.delete") : log[k].id = c.id /\ log[k].ok

ShouldBeDeleted(c) ==
  /\ ~IsAdminName(c.name)
  /\ ~Allowlisted(c.name)
  /\ \A g \in 1..Len(groups) : toLowerCase(groups[g].name) # toLowerCase(c.name)

\* the collections of the listing that the delete loop has gone through
Examined == {loc.collections[h] : h \in 1..(loc.i - 1)}

\* C20: syncCollections has issued a delete for a collection it examined
\* exactly when the collection is to be deleted
C20_DeletesExactlyOrphans ==
  pc = "C_delete" =>
    \A c \in Examined :
       (\E k \in Requests("collections.delete") : log[k].id = c.id)
         <=> ShouldBeDeleted(c)

\* the same when every entry of the allowlist is written in lower case
C20_WithLowerCaseAllowlist ==
  (pc = "C_delete" /\ \A e \in Range(allowedCollections) : toLowerCase(e) = e) =>
    \A c \in Examined :
       (\E k \in Requests("collections.delete") : log[k].id = c.id)
         <=> ShouldBeDeleted(c)

\* ------------------------------------------------------ claims C21 to C30
\* C21: no delete is issued for a collection whose name equals, ignoring
\* case, an entry of the configured collection allowlist
C21_AllowlistedNeverDeleted ==
  \A k \in Requests("collections.delete") : ~Allowlisted(log[k].name)

\* the same where every configured entry is written in lower case
C21_WithLowerCaseAllowlist ==
  (\A e \in Range(allowedCollections) : toLowerCase(e) = e) =>
    \A k \in Requests("collections.delete") : ~Allowlisted(log[k].name)

\* the names of the groups of ws the account is a member of
GroupsOf(ws, userId) ==
  {ws.groups[k].name : k \in {h \in 1..Len(ws.groups) :
                                  userId \in ws.members[ws.groups[h].id]}}

\* the accounts the sync excludes: those with the ADMIN_EMAIL email
ExcludedUsers == {users[k] : k \in {h \in 1..Len(users) : users[h].email = ADMIN_EMAIL}}

\* C22: the role and the group memberships of the ADMIN_EMAIL account are
\* those the invocation found, and no request of the invocation names it
C22_AdminEmailAccountUntouched ==
  \A u \in ExcludedUsers :
     /\ role[u.id] = ws0.role[u.id]
     /\ GroupsOf(Now, u.id) = GroupsOf(ws0, u.id)
     /\ \A k \in 1..Len(log) : log[k].user # u.id

\* the same for the accounts' roles and their memberships of the groups the
\* invocation keeps, as long as the account is in no admin group
C22_OutsideAdminGroup ==
  \A u \in ExcludedUsers :
     (\A K \in GroupsOf(ws0, u.id) : ~IsAdminName(K)) =>
        /\ role[u.id] = ws0.role[u.id]
        /\ \A k \in 1..Len(log) : log[k].user # u.id

\* syncAdmins has just returned success, to main or to its direct caller,
\* and no remote call failed in the invocation
AfterCleanSyncAdmins ==
  /\ results.admins = "success"
  /\ results.collections = "none"
  /\ pc \in {"C_start", "idle"}
  /\ ~failed

InAdminGroup(u) == InGroupNamed(u, ADMIN_GROUP_NAME)

\* C23: after a syncAdmins in which no remote call failed, every synced
\* account whose email equals a directory admin's ignoring case has the
\* admin role, is in the admin group and was not demoted by the invocation
C23_EmailsMatchIgnoringCase ==
  AfterCleanSyncAdmins =>
    \A u \in SyncedUsers :
       MatchesDirectoryAdmin(u) =>
         /\ role[u.id] = "admin"
         /\ InAdminGroup(u)
         /\ \A k \in Requests("users.update_role") :
              ~(log[k].user = u.id /\ log[k].name = "viewer")

\* the same for the accounts whose email is a directory admin's letter for
\* letter
C23_ExactEmails ==
  AfterCleanSyncAdmins =>
    \A u \in SyncedUsers :
       ExactDirectoryAdmin(u) =>
         /\ role[u.id] = "admin"
         /\ InAdminGroup(u)

\* syncUsers has just returned success
AfterSuccessfulSyncUsers == AfterSyncUsers /\ results.users = "success"

\* C24: after a successful syncUsers every synced account in the admin
\* group has the email of a directory admin (ignoring case): no account is
\* left in the admin group because of a directory unit
C24_AdminGroupNotDrivenByUnits ==
  AfterSuccessfulSyncUsers =>
    \A u \in SyncedUsers : InAdminGroup(u) => MatchesDirectoryAdmin(u)

\* the same where no person holds a unit named like the admin group
C24_WithoutAdminNamedUnit ==
  (AfterSuccessfulSyncUsers /\ \A K \in DirectoryUnitNames : ~IsAdminName(K)) =>
    \A u \in SyncedUsers : InAdminGroup(u) => MatchesDirectoryAdmin(u)

\* the same where the admin group existed before the syncUsers
C24_WithExistingAdminGroup ==
  (AfterSuccessfulSyncUsers /\ \E k \in 1..Len(ws0.groups) : IsAdminName(ws0.groups[k].name)) =>
    \A u \in SyncedUsers : InAdminGroup(u) => MatchesDirectoryAdmin(u)

\* syncUsers has loaded the allowlist into allowedUnits (line 584)
AllowlistLoaded == pc = "U_units" \/ PastUnitFetch

\* C25: isUnitAllowed on the loaded allowlist is true for every unit when
\* no allowlist file is configured, and otherwise true exactly for the units
\* that equal, ignoring case, an entry of the list the file holds (no entry
\* when the file is missing or malformed)
C25_IsUnitAllowed ==
  AllowlistLoaded =>
    \A unit \in UnitNames :
       isUnitAllowed(unit, loc.allowedUnits) <=> AllowedUnit(unit)

\* with a configured list, a unit is allowed through an entry that differs
\* from it in letter case, and another unit is not allowed
C25_Witness ==
  /\ AllowlistLoaded
  /\ unitsFile.state = "array"
  /\ \E unit \in UnitNames :
       /\ isUnitAllowed(unit, loc.allowedUnits)
       /\ unit \notin Range(loc.allowedUnits.list)
  /\ \E unit \in UnitNames : ~isUnitAllowed(unit, loc.allowedUnits)

\* the phase holds the result of getAllAdmins in loc.admins
AdminsExpanded ==
  pc \in {"U_admins", "U_delete", "U_pruneFetch", "U_pruneMember",
          "A_promote", "A_demote"}

\* the expansion of OUTLINE_ADMIN_GROUP over the directory's groups
Expansion == fetchAdminsRecursively(OUTLINE_ADMIN_GROUP, {}, dirGroups)

\* some directory group is nested, directly or not, inside itself
HasCycle ==
  \E g \in DOMAIN dirGroups :
     \E m \in Range(dirGroups[g]) :
        /\ m.type = "group"
        /\ g \in ReachableGroups({m.id}, Cardinality(DOMAIN dirGroups))

NestedInItself ==
  \E g \in DOMAIN dirGroups :
     \E m \in Range(dirGroups[g]) : m.type = "group" /\ m.id = g

\* C26: the expansion that gave loc.admins has ended, after requesting the
\* members of each directory group at most once
C26_ExpansionFetchesEachGroupOnce ==
  AdminsExpanded =>
    /\ \A h, k \in 1..Len(Expansion.fetched) :
          h # k => Expansion.fetched[h] # Expansion.fetched[k]
    /\ Range(Expansion.fetched)
         = ReachableGroups({OUTLINE_ADMIN_GROUP}, Cardinality(DOMAIN dirGroups))
    /\ loc.admins \in {<<>>, UniqueById(Expansion.admins, 1)}

\* the expansion ran over a group nested inside itself and listed twice,
\* fetched more than one group and found admins
C26_Witness ==
  /\ AdminsExpanded
  /\ NestedInItself
  /\ HasCycle
  /\ Len(Expansion.fetched) >= 2
  /\ loc.admins = UniqueById(Expansion.admins, 1)
  /\ loc.admins # <<>>

\* the expansion ran over two groups nested inside each other
C26_WitnessMutualNesting ==
  /\ AdminsExpanded
  /\ HasCycle
  /\ ~NestedInItself
  /\ Len(Expansion.fetched) >= 2
  /\ loc.admins # <<>>

\* the persons under OUTLINE_ADMIN_GROUP, through any nesting
ReachablePersons ==
  {x \in UNION {Range(dirGroups[g]) :
                  g \in ReachableGroups({OUTLINE_ADMIN_GROUP},
                                        Cardinality(DOMAIN dirGroups))} :
     x.type = "person"}

\* C27: when no call of the invocation failed, loc.admins holds exactly the
\* persons reachable from OUTLINE_ADMIN_GROUP, each person id once
C27_AdminsAreReachablePersonsOnce ==
  (AdminsExpanded /\ ~failed) =>
    /\ {[id |-> a.id, email |-> a.email] : a \in Range(loc.admins)}
         = {[id |-> x.id, email |-> x.email] : x \in ReachablePersons}
    /\ \A h, k \in 1..Len(loc.admins) :
          h # k => loc.admins[h].id # loc.admins[k].id

\* the expansion met a person twice and returned persons of a nested group
C27_Witness ==
  /\ AdminsExpanded /\ ~failed
  /\ Len(Expansion.admins) > Len(loc.admins)
  /\ \E a \in Range(loc.admins) :
        \A m \in Range(dirGroups[OUTLINE_ADMIN_GROUP]) : m.id # a.id

\* C28: every remove-member request for a group other than the admin group
\* names a listed user whose filtered unit set, as the phase obtained it,
\* does not include the group's name ignoring case
C28_RemovalsOnlyWithoutUnit ==
  \A k \in Requests("groups.remove_user") :
     ~IsAdminName(log[k].name) =>
        \E u \in SyncedUsers :
           /\ u.id = log[k].user
           /\ ~HasUnit(UnitSetInRun(u), log[k].name)

\* syncUsers removed a user from a unit group while it kept a member of a
\* group whose name differs from the member's unit in letter case only
C28_Witness ==
  /\ AfterSuccessfulSyncUsers
  /\ \E k \in Requests("groups.remove_user") :
        log[k].ok /\ ~IsAdminName(log[k].name)
  /\ \E u \in SyncedUsers : \E h \in 1..Len(groups) :
        /\ u.id \in members[groups[h].id]
        /\ HasUnit(UnitSetInRun(u), groups[h].name)
        /\ groups[h].name \notin UnitSetInRun(u)
        /\ groups[h] \in Range(ws0.groups)
        /\ u.id \in ws0.members[groups[h].id]

\* a syncAdmins invoked on its own is running or has returned
InDirectSyncAdmins ==
  /\ caller = "direct"
  /\ pc \in AdminsSteps \/ (pc = "idle" /\ results.admins # "none")

\* the groups other than the admin group, by name, with their members
UnitGroups(ws) == {g \in WorkspaceState(ws).groups : ~IsAdminName(g.name)}

\* C29: a syncAdmins issues only role updates and requests on the admin
\* group, and leaves the other groups, their members, the collections and
\* their links as it found them
C29_SyncAdminsFrame ==
  InDirectSyncAdmins =>
    /\ \A k \in 1..Len(log) :
          \/ log[k].op = "users.update_role"
          \/ /\ log[k].op \in {"groups.create", "groups.add_user",
                               "groups.remove_user"}
             /\ IsAdminName(log[k].name)
    /\ UnitGroups(Now) = UnitGroups(ws0)
    /\ colls = ws0.colls
    /\ links = ws0.links

\* a syncAdmins demoted an admin who is, before and after, a member of a
\* unit group, and took the admin out of the admin group
C29_Witness ==
  /\ InDirectSyncAdmins /\ pc = "idle"
  /\ \E u \in SyncedUsers :
        /\ \E k \in Requests("users.update_role") :
              log[k].ok /\ log[k].user = u.id /\ log[k].name = "viewer"
        /\ \E k \in Requests("groups.remove_user") :
              log[k].ok /\ log[k].user = u.id
        /\ \E g \in UnitGroups(Now) : u.id \in g.members
        /\ u.id \in UNION {g.members : g \in {x \in WorkspaceState(ws0).groups : IsAdminName(x.name)}}

MembershipRequests ==
  Requests("groups.add_user") \cup Requests("groups.remove_user")

\* the group of request k was in the workspace when the invocation started,
\* or a create issued before k made it
FoundOrCreatedBefore(k) ==
  \/ \E g \in Range(ws0.groups) : g.id = log[k].id
  \/ \E h \in 1..(k - 1) :
        log[h].op = "groups.create" /\ log[h].ok /\ log[h].id = log[k].id

\* C30: every add-member and remove-member request names a group the
\* workspace holds when the request is issued: the group was found or
\* created before, and no delete issued before has removed it
C30_MembershipTargetsExist ==
  \A k \in MembershipRequests :
     /\ log[k].name # ""
     /\ FoundOrCreatedBefore(k)
     /\ ~\E h \in 1..(k - 1) :
           log[h].op = "groups.delete" /\ log[h].ok /\ log[h].id = log[k].id

\* in one invocation a user joined a group created just before, a group
\* with members was deleted, and a user was removed from a group
C30_Witness ==
  /\ \E k \in Requests("groups.add_user") :
        \E h \in 1..(k - 1) :
           log[h].op = "groups.create" /\ log[h].ok /\ log[h].id = log[k].id
  /\ \E h \in Requests("groups.delete") : log[h].ok /\ log[h].size > 0
  /\ \E k \in Requests("groups.remove_user") : log[k].ok

\* ------------------------------------------------------ claims C31 to C39
\* a syncCollections that directly follows a syncCollections has returned,
\* no remote call having failed in either
AfterTwoCleanSyncCollections ==
  /\ pc = "idle"
  /\ Len(hist) >= 2
  /\ \A k \in {Len(hist) - 1, Len(hist)} :
        hist[k].op = "collections" /\ hist[k].clean

\* C31: a syncCollections that directly follows a syncCollections, no remote
\* call having failed in either, issues no mutating request
C31_SecondSyncCollectionsIssuesNothing ==
  AfterTwoCleanSyncCollections => log = <<>>

\* the second syncCollections leaves the workspace as the first one left it
C31_SecondSyncCollectionsChangesNothing ==
  AfterTwoCleanSyncCollections => WorkspaceState(Now) = WorkspaceState(ws0)

\* the deletion step of syncUsers starts
DeletionStarts == pc = "U_delete" /\ loc.i = 1

\* C32: when the deletion step of syncUsers starts, the list it and the
\* pruning step iterate over holds every group of the workspace
C32_DeletionExaminesEveryGroup ==
  DeletionStarts => \A k \in 1..Len(groups) : groups[k] \in Range(loc.existingGroups)

\* the same where the invocation has created no group
C32_WithoutCreation ==
  (DeletionStarts /\ \A k \in Requests("groups.create") : ~log[k].ok) =>
    \A k \in 1..Len(groups) : groups[k] \in Range(loc.existingGroups)

\* syncUsers holds the listings it made at its start: no step has mutated
\* the workspace since
UsersListed == pc = "U_units"

\* syncCollections is at its first group: the listings it made at its start
\* are those of the workspace but for the admin group it may have created
CollectionsListed == pc = "C_link" /\ loc.i = 1

\* C33: the listings a phase makes at its start hold every account, every
\* group and every collection of the workspace
C33_ListingsAreComplete ==
  /\ UsersListed =>
       /\ Range(loc.activeUsers) = SyncedUsers
       /\ loc.existingGroups = groups
  /\ CollectionsListed =>
       /\ loc.collections = colls
       /\ \A k \in 1..Len(groups) :
             groups[k] \in Range(loc.existingGroups) \/ groups[k] = loc.adminGroup

\* C34: for a user whose directory lookup failed in this invocation, no
\* remove-member request takes the user out of the group of one of the
\* user's units, and no delete is issued for the group of one of the units
C34_LookupFailureRemovesNothing ==
  \A u \in SyncedUsers :
     u.email \in loc.lookupFailed =>
        /\ \A k \in Requests("groups.remove_user") :
              ~(/\ log[k].user = u.id
                /\ ~IsAdminName(log[k].name)
                /\ HasUnit(FilteredUnitSet(u), log[k].name))
        /\ \A k \in Requests("groups.delete") :
              ~HasUnit(FilteredUnitSet(u), log[k].name)

\* the same when no lookup has failed: no remove-member request takes a
\* user out of the group of one of the user's units, no delete is issued
\* for the group of a unit of a listed user
C34_WithoutLookupFailure ==
  loc.lookupFailed = {} =>
    \A u \in SyncedUsers :
        /\ \A k \in Requests("groups.remove_user") :
              ~(/\ log[k].user = u.id
                /\ ~IsAdminName(log[k].name)
                /\ HasUnit(FilteredUnitSet(u), log[k].name))
        /\ \A k \in Requests("groups.delete") :
              ~HasUnit(FilteredUnitSet(u), log[k].name)

\* the phase holds an empty admin list although the directory has admins:
\* the retrieval of the directory admin list failed
AdminRetrievalFailed ==
  /\ AdminsExpanded
  /\ loc.admins = <<>>
  /\ getAllAdmins(dirGroups) # <<>>

DemotedOrRemoved(u) ==
  \/ \E k \in Requests("users.update_role") :
        log[k].user = u.id /\ log[k].name = "viewer"
  \/ \E k \in Requests("groups.remove_user") :
        log[k].user = u.id /\ IsAdminName(log[k].name)

\* C35: in a phase whose retrieval of the directory admin list failed, no
\* account with the email of a directory admin is demoted or removed from
\* the admin group
C35_FailedAdminRetrievalDemotesNobody ==
  AdminRetrievalFailed =>
    \A u \in SyncedUsers : ExactDirectoryAdmin(u) => ~DemotedOrRemoved(u)

\* the same in the phases whose retrieval did not fail
C35_WithRetrieval ==
  (AdminsExpanded /\ ~failed) =>
    \A u \in SyncedUsers : ExactDirectoryAdmin(u) => ~DemotedOrRemoved(u)

\* the workspace carried out a delete of the group in this invocation
DeletedInRun(groupId) ==
  \E k \in Requests("groups.delete") : log[k].ok /\ log[k].id = groupId

\* C36: the pruning loop of syncUsers has requested the members of no group
\* that the deletion loop deleted, no remove-member request names such a
\* group, and no request about a deleted group has made the phase fail
C36_NoRequestAfterDelete ==
  /\ thrown.users.call # "gone.error"
  /\ pc \in {"U_pruneFetch", "U_pruneMember"} =>
       \A h \in 1..(loc.i - 1) : ~DeletedInRun(loc.existingGroups[h].id)
  /\ \A k \in Requests("groups.remove_user") :
        ~\E h \in 1..(k - 1) :
            log[h].op = "groups.delete" /\ log[h].ok /\ log[h].id = log[k].id

\* the part of C36 about remove-member requests
C36_NoRemovalAfterDelete ==
  \A k \in Requests("groups.remove_user") :
     ~\E h \in 1..(k - 1) :
         log[h].op = "groups.delete" /\ log[h].ok /\ log[h].id = log[k].id

\* users.list holds no account but, at most, the ADMIN_EMAIL one
NoUserListed == SyncedUsers = {}

\* C37: a syncUsers whose user listing came back empty has returned failure
\* and has issued no mutating request, and the workspace is as it found it
C37_EmptyListingMutatesNothing ==
  (AfterSyncUsers /\ NoUserListed /\ ~failed) =>
    /\ results.users = "failure"
    /\ log = <<>>
    /\ Now = ws0
    /\ caller = "main" => exitCode = 1

\* such a syncUsers has returned, in a workspace with a group no user's
\* unit names and without admin group
C37_Witness ==
  /\ AfterSyncUsers /\ NoUserListed /\ ~failed
  /\ results.users = "failure"
  /\ \E k \in 1..Len(groups) : ~IsAdminName(groups[k].name)
  /\ \A k \in 1..Len(groups) : ~IsAdminName(groups[k].name)
  /\ caller = "main"

\* ------------------------------------------------------ the API key setup
\* class ApiKeySetup. Its state is the record apiKeySetup:
\*   users, keys   the tables users and "apiKeys" as the open transaction
\*                 sees them; teams: the table teams has a row
\*   saved         the tables as the last COMMIT left them
\*   secrets       the Kubernetes secrets, by name
\*   pc            the position in setup(); adminId, adminKeyResult: its locals
\*   runs          the setup() runs that returned, returned: what the last
\*                 one returned as success
\*   nextId        the next random UUID / random key
\* A user row is [id, email, name, role, super, createdAt], a key row is
\* [id, userId, name, hash].

\* lines 1551-1563: the configuration
adminEmail == "admin@epfl.ch"
adminName == "EPFL Admin"
adminSecretName == "outlinewiki-api-key-admin"
adminKeyName == "admin-api-key"
monitoringSecretName == "outlinewiki-api-key-monitoring"
monitoringKeyName == "monitoring-api-key"

\* the setup() runs explored
MaxRuns == 2

\* the sync program's variables, which the API key setup never touches
syncVars == <<users, role, groups, members, colls, links, nextId, dirUnits,
              dirGroups, unitsFile, missingVars, allowedCollections,
              pageLimit, pc, caller, loc, results, exitCode, log, hist,
              faults, failed, thrown, ws0>>

\* lines 1728 and 2059: the SHA-256 digest of a key; distinct keys have
\* distinct digests
Hash(secret) == <<"sha256", secret>>

\* lines 2084 and 1696: a key in the data of a secret, and back
ToBase64(apiKey) == <<"base64", apiKey>>
FromBase64(data) == data[2]

\* a secret that does not exist, the null a lookup returns, no row
NoSecret == <<>>
NoKey == 0
NoRow == [id |-> 0]

\* lines 1692-1712: the key in the secret; null when the secret does not
\* exist, and null as well when reading it fails (f = "read")
getExistingSecretApiKey(secrets, secretName, f) ==
  IF f = "read" \/ secrets[secretName] = NoSecret THEN NoKey
  ELSE FromBase64(secrets[secretName])

\* lines 1720-1767: the key row with the digest of apiKey, or null
validateExistingApiKey(keys, apiKey) ==
  LET rows == {k \in keys : k.hash = Hash(apiKey)}
  IN  IF apiKey = NoKey \/ rows = {} THEN NoRow
      ELSE CHOOSE k \in rows : TRUE

\* the row LIMIT 1 returns of rows
LimitOne(rows) == CHOOSE k \in rows : \A x \in rows : k.id <= x.id

\* the check of manageExistingApiKey without its revocation
manageExistingApiKeyKeepingOld(keys, secrets, userId, keyName, secretName, f) ==
  LET existingSecretApiKey == getExistingSecretApiKey(secrets, secretName, f)
      validatedKey == validateExistingApiKey(keys, existingSecretApiKey)
  IN  IF /\ validatedKey # NoRow
         /\ validatedKey.userId = userId
         /\ validatedKey.name = keyName
      THEN [keys |-> keys, valid |-> TRUE,
            existingKey |-> existingSecretApiKey]
      ELSE [keys |-> keys, valid |-> FALSE, existingKey |-> NoKey]

\* lines 1996-2041: the key of the secret is kept when it is a key of
\* userId named keyName; otherwise one row of userId named keyName, if
\* there is one, is deleted
manageExistingApiKey(keys, secrets, userId, keyName, secretName, f) ==
  LET existingSecretApiKey == getExistingSecretApiKey(secrets, secretName, f)
      validatedKey == validateExistingApiKey(keys, existingSecretApiKey)
      existingKeyResult ==
        {k \in keys : k.userId = userId /\ k.name = keyName}
  IN  IF /\ validatedKey # NoRow
         /\ validatedKey.userId = userId
         /\ validatedKey.name = keyName
      THEN [keys |-> keys, valid |-> TRUE,
            existingKey |-> existingSecretApiKey]
      ELSE [keys |-> IF existingKeyResult = {} THEN keys
                     ELSE keys \ {LimitOne(existingKeyResult)},
            valid |-> FALSE, existingKey |-> NoKey]

\* lines 2050-2072: a row for the new key secret
createApiKey(keys, userId, keyName, secret) ==
  keys \cup {[id |-> secret, userId |-> userId, name |-> keyName,
              hash |-> Hash(secret)]}

\* lines 2080-2142: the secret is created, or replaced when it exists;
\* false when the request fails (f = "write")
storeInKubernetesSecret(secrets, apiKey, secretName, f) ==
  IF f = "write" THEN [secrets |-> secrets, stored |-> FALSE]
  ELSE [secrets |-> [secrets EXCEPT ![secretName] = ToBase64(apiKey)],
        stored |-> TRUE]

\* lines 2152-2193: setupApiKey on the state s, reading the secret with
\* outcome rd and writing it with outcome wr
setupApiKey(s, userId, keyName, secretName, rd, wr) ==
  LET keyStatus ==
        manageExistingApiKey(s.keys, s.secrets, userId, keyName, secretName, rd)
      fresh == ~(keyStatus.valid /\ keyStatus.existingKey # NoKey)
      apiKey == IF fresh THEN s.nextId ELSE keyStatus.existingKey
      keys == IF fresh
                THEN createApiKey(keyStatus.keys, userId, keyName, apiKey)
                ELSE keyStatus.keys
      store == storeInKubernetesSecret(s.secrets, apiKey, secretName, wr)
  IN  [keys |-> keys, secrets |-> store.secrets,
       nextId |-> IF fresh THEN s.nextId + 1 ELSE s.nextId,
       success |-> store.stored]

\* the users carrying the super flag
SuperUsers(rows) == {u \in rows : u.super}

\* lines 1776-1783: the rows of a set in the orders ORDER BY "createdAt" ASC
\* may return them (rows of equal createdAt come in any order)
OrderedByCreatedAt(rows) ==
  {o \in [1..Cardinality(rows) -> rows] :
     /\ \A i, j \in DOMAIN o : i # j => o[i] # o[j]
     /\ \A i, j \in DOMAIN o : i < j => o[i].createdAt <= o[j].createdAt}

\* lines 1845-1880: the key rows of the users userIds are deleted
revokeApiKeys(keys, userIds) == {k \in keys : k.userId \notin userIds}

\* lines 1815-1831: the users adminsToRemove lose the super flag and
\* become members
demote(rows, adminsToRemove) ==
  {IF u.id \in adminsToRemove
     THEN [u EXCEPT !.super = FALSE, !.role = "member"] ELSE u : u \in rows}

\* handleMultipleAdmins keeping the oldest super user whatever its email
handleMultipleAdminsKeepingOldest(rows, keys, allAdmins) ==
  IF Len(allAdmins) <= 1
    THEN [users |-> rows, keys |-> keys,
          adminId |-> IF allAdmins = <<>> THEN 0 ELSE allAdmins[1].id]
  ELSE LET adminToKeep == allAdmins[1]
           adminsToRemove == {allAdmins[i].id : i \in DOMAIN allAdmins}
                               \ {adminToKeep.id}
       IN  [users |-> demote(rows, adminsToRemove),
            keys |-> revokeApiKeys(keys, adminsToRemove),
            adminId |-> adminToKeep.id]

\* lines 1774-1838: of the super users allAdmins, oldest first, the first
\* whose email is adminEmail is kept, or else the first; the others are
\* demoted and their keys revoked
handleMultipleAdmins(rows, keys, allAdmins) ==
  IF Len(allAdmins) <= 1
    THEN [users |-> rows, keys |-> keys,
          adminId |-> IF allAdmins = <<>> THEN 0 ELSE allAdmins[1].id]
  ELSE LET matching == {i \in DOMAIN allAdmins :
                          allAdmins[i].email = adminEmail}
           adminToKeep ==
             IF matching # {}
               THEN allAdmins[CHOOSE i \in matching :
                                \A j \in matching : i <= j]
               ELSE allAdmins[1]
           adminsToRemove == {allAdmins[i].id : i \in DOMAIN allAdmins}
                               \ {adminToKeep.id}
       IN  [users |-> demote(rows, adminsToRemove),
            keys |-> revokeApiKeys(keys, adminsToRemove),
            adminId |-> adminToKeep.id]

\* lines 1925-1960: the user adminId gets the configured email and name,
\* the role admin and the super flag, unless email, name and role are
\* already the expected ones
updateAdminUser(rows, adminId) ==
  {IF /\ u.id = adminId
      /\ (u.email # adminEmail \/ u.name # adminName \/ u.role # "admin")
     THEN [u EXCEPT !.email = adminEmail, !.name = adminName,
                    !.role = "admin", !.super = TRUE]
     ELSE u : u \in rows}

\* lines 1967-1986, after getTeamId: the new super user
createNewAdminUser(rows, userId, createdAt) ==
  rows \cup {[id |-> userId, email |-> adminEmail, name |-> adminName,
              role |-> "admin", super |-> TRUE, createdAt |-> createdAt]}

\* new Date() of createNewAdminUser: later than every row
NewDate(rows) ==
  1 + (IF rows = {} THEN 0
       ELSE (CHOOSE u \in rows :
               \A x \in rows : x.createdAt <= u.createdAt).createdAt)

\* lines 1887-1918: createOrFindAdmin on the state s, the super users
\* coming back from the database in the order allAdmins; error: getTeamId
\* threw (lines 1675-1678: no team)
createOrFindAdmin(s, allAdmins) ==
  LET adminCheckResult == SuperUsers(s.users)
  IN  IF Cardinality(adminCheckResult) > 1
        THEN LET h == handleMultipleAdmins(s.users, s.keys, allAdmins)
             IN  [users |-> updateAdminUser(h.users, h.adminId),
                  keys |-> h.keys, adminId |-> h.adminId,
                  nextId |-> s.nextId, error |-> FALSE]
      ELSE IF Cardinality(adminCheckResult) = 1
        THEN LET adminId == (CHOOSE u \in adminCheckResult : TRUE).id
             IN  [users |-> updateAdminUser(s.users, adminId),
                  keys |-> s.keys, adminId |-> adminId,
                  nextId |-> s.nextId, error |-> FALSE]
      ELSE [users |-> IF s.teams
                        THEN createNewAdminUser(s.users, s.nextId,
                                                NewDate(s.users))
                        ELSE s.users,
            keys |-> s.keys, adminId |-> s.nextId, nextId |-> s.nextId + 1,
            error |-> ~s.teams]

\* setup(), lines 2238-2264: an error reached the catch; the transaction,
\* if one is open, is rolled back and the run returns success: false
Rollback(s) ==
  [s EXCEPT !.users = s.saved.users, !.keys = s.saved.keys,
            !.pc = "idle", !.adminId = 0, !.adminKeyResult = TRUE,
            !.runs = s.runs + 1, !.returned = FALSE]

\* setup(), lines 2199-2204: the connection and BEGIN
K_connect ==
  /\ apiKeySetup.pc = "idle"
  /\ apiKeySetup.runs < MaxRuns
  /\ \E f \in {"none", "connect"} :
       apiKeySetup' =
         IF f = "connect" THEN Rollback(apiKeySetup)
         ELSE [apiKeySetup EXCEPT !.pc = "createOrFindAdmin"]
  /\ UNCHANGED syncVars

\* setup(), lines 2206-2207
K_createOrFindAdmin ==
  /\ apiKeySetup.pc = "createOrFindAdmin"
  /\ \E f \in {"none", "query"} :
     \E allAdmins \in OrderedByCreatedAt(SuperUsers(apiKeySetup.users)) :
       LET r == createOrFindAdmin(apiKeySetup, allAdmins)
       IN  apiKeySetup' =
             IF f = "query" \/ r.error
               THEN [Rollback(apiKeySetup) EXCEPT !.nextId = r.nextId]
             ELSE [apiKeySetup EXCEPT !.users = r.users, !.keys = r.keys,
                                      !.adminId = r.adminId,
                                      !.nextId = r.nextId,
                                      !.pc = "adminKey"]
  /\ UNCHANGED syncVars

\* setup(), lines 2209-2210
K_adminKey ==
  /\ apiKeySetup.pc = "adminKey"
  /\ \E rd \in {"none", "read"}, wr \in {"none", "write"} :
       LET r == setupApiKey(apiKeySetup, apiKeySetup.adminId, adminKeyName,
                            adminSecretName, rd, wr)
       IN  apiKeySetup' =
             [apiKeySetup EXCEPT !.keys = r.keys, !.secrets = r.secrets,
                                 !.nextId = r.nextId,
                                 !.adminKeyResult = r.success,
                                 !.pc = "monitoringKey"]
  /\ UNCHANGED syncVars

\* setup(), lines 2212-2236: the monitoring key, COMMIT and the result
K_monitoringKey ==
  /\ apiKeySetup.pc = "monitoringKey"
  /\ \E rd \in {"none", "read"}, wr \in {"none", "write"} :
       LET r == setupApiKey(apiKeySetup, apiKeySetup.adminId,
                            monitoringKeyName, monitoringSecretName, rd, wr)
       IN  apiKeySetup' =
             [apiKeySetup EXCEPT !.keys = r.keys, !.secrets = r.secrets,
                                 !.nextId = r.nextId,
                                 !.monitoringKeyResult = r.success,
                                 !.pc = "commit"]
  /\ UNCHANGED syncVars

\* setup(), lines 2215-2236: COMMIT and the result of the run
K_commit ==
  /\ apiKeySetup.pc = "commit"
  /\ \E f \in {"none", "commit"} :
       apiKeySetup' =
         IF f = "commit"
           THEN [Rollback(apiKeySetup) EXCEPT !.monitoringKeyResult = TRUE]
         ELSE [apiKeySetup EXCEPT
                 !.saved = [users |-> apiKeySetup.users,
                            keys |-> apiKeySetup.keys],
                 !.pc = "idle", !.adminId = 0,
                 !.adminKeyResult = TRUE, !.monitoringKeyResult = TRUE,
                 !.runs = apiKeySetup.runs + 1,
                 !.returned = (apiKeySetup.adminKeyResult
                                 /\ apiKeySetup.monitoringKeyResult)]
  /\ UNCHANGED syncVars

\* the first random id of the runs; the rows and keys that exist before
\* have smaller ones
FirstId == 10

\* user rows the setup may find: the expected administrator, one whose
\* email differs from adminEmail by case only, and some other account
Expected == [email |-> adminEmail, name |-> adminName, role |-> "admin"]
OtherCase == [email |-> "Admin@EPFL.ch", name |-> adminName, role |-> "admin"]
Other == [email |-> "old@epfl.ch", name |-> "Old Admin", role |-> "member"]

\* no row, or one row with the given id, of one of the shapes, with or
\* without the super flag, created at one of the dates
UserRows(id, shapes, dates) ==
  {{}} \cup
  {{[id |-> id, email |-> p.email, name |-> p.name, role |-> p.role,
     super |-> sup, createdAt |-> d]} :
      p \in shapes, sup \in BOOLEAN, d \in dates}

UserTables ==
  {a \cup b \cup c : a \in UserRows(1, {Expected, Other}, {1, 2}),
                     b \in UserRows(2, {OtherCase, Other}, {2}),
                     c \in UserRows(3, {Other}, {1, 3})}

KeyRow(id, userId, name) ==
  [id |-> id, userId |-> userId, name |-> name, hash |-> Hash(id)]

\* key tables over the given users: no user has two keys of one name
KeyTables(rows) ==
  {t \in SUBSET {KeyRow(1, 1, adminKeyName), KeyRow(2, 1, monitoringKeyName),
                 KeyRow(3, 2, adminKeyName)} :
     \A k \in t : \E u \in rows : u.id = k.userId}

Secrets(admin, monitoring) ==
  (adminSecretName :> admin) @@ (monitoringSecretName :> monitoring)

\* the secrets an earlier setup, or somebody else, may have left
SecretStores ==
  { Secrets(NoSecret, NoSecret),
    Secrets(ToBase64(1), ToBase64(2)),
    Secrets(ToBase64(3), NoSecret),
    Secrets(ToBase64(1), ToBase64(1)),
    Secrets(NoSecret, ToBase64(2)) }

\* the sync program at rest, on the base input and the empty workspace
SyncAtRest ==
  /\ users = BaseInput.users
  /\ role = BaseInput.role
  /\ dirUnits = BaseInput.dirUnits
  /\ dirGroups = BaseInput.dirGroups
  /\ unitsFile = BaseInput.unitsFile
  /\ missingVars = DefaultConfiguration.missingVars
  /\ allowedCollections = DefaultConfiguration.allowedCollections
  /\ pageLimit = ListLimit
  /\ groups = <<>>
  /\ members = NoMap
  /\ colls = <<>>
  /\ links = NoMap
  /\ nextId = 1
  /\ pc = "idle"
  /\ caller = "none"
  /\ loc = LocInit
  /\ results = NoResults
  /\ exitCode = 0
  /\ log = <<>>
  /\ hist = <<>>
  /\ faults = 0
  /\ failed = FALSE
  /\ thrown = NoThrown
  /\ ws0 = Snapshot(groups, members, role, colls, links)

\* the state after new ApiKeySetup(): a database with a team unless it has
\* no user, and nothing run yet
InitApiKey ==
  /\ SyncAtRest
  /\ \E rows \in UserTables :
     \E keys \in KeyTables(rows) :
     \E secrets \in SecretStores :
     \E teams \in IF rows = {} THEN BOOLEAN ELSE {TRUE} :
       apiKeySetup =
         [users |-> rows, keys |-> keys, teams |-> teams,
          saved |-> [users |-> rows, keys |-> keys],
          secrets |-> secrets, pc |-> "idle", adminId |-> 0,
          adminKeyResult |-> TRUE, monitoringKeyResult |-> TRUE,
          runs |-> 0, returned |-> TRUE, nextId |-> FirstId]

NextApiKey ==
  \/ K_connect
  \/ K_createOrFindAdmin
  \/ K_adminKey
  \/ K_monitoringKey
  \/ K_commit

SpecApiKey == InitApiKey /\ [][NextApiKey]_vars

\* ---------------------------------------------------- claims C38 and C39
\* the key rows of user id named name, in a key table
KeysOf(keys, id, name) == {k \in keys : k.userId = id /\ k.name = name}

\* the admin user: the super users of a users table, and the user the
\* running setup() works for
AdminUsers(rows) ==
  {u.id : u \in SuperUsers(rows)} \cup
  (IF apiKeySetup.adminId # 0 THEN {apiKeySetup.adminId} ELSE {})

AtMostOneKeyPerName(rows, keys) ==
  \A id \in AdminUsers(rows) :
  \A name \in {adminKeyName, monitoringKeyName} :
    Cardinality(KeysOf(keys, id, name)) <= 1

\* C38: in every state of every sequence of setup() runs, whatever reads
\* and writes of the Kubernetes secrets failed, the admin user has at most
\* one API key row for each of the key names admin-api-key and
\* monitoring-api-key, in the open transaction and in the committed
\* database (the databases the runs start from have at most one per user
\* and name)
C38_AtMostOneKeyPerName ==
  /\ AtMostOneKeyPerName(apiKeySetup.users, apiKeySetup.keys)
  /\ AtMostOneKeyPerName(apiKeySetup.saved.users, apiKeySetup.saved.keys)

\* the second run, after a first run that committed a new admin key whose
\* secret could not be written: that key is revoked and another created,
\* and the secret could not be written again
C38_Witness ==
  /\ apiKeySetup.runs = 1
  /\ apiKeySetup.pc = "monitoringKey"
  /\ ~apiKeySetup.adminKeyResult
  /\ apiKeySetup.secrets[adminSecretName] = NoSecret
  /\ KeysOf(apiKeySetup.saved.keys, apiKeySetup.adminId, adminKeyName)
       = {KeyRow(FirstId, apiKeySetup.adminId, adminKeyName)}
  /\ \E k \in KeysOf(apiKeySetup.keys, apiKeySetup.adminId, adminKeyName) :
       k.id > FirstId

\* createOrFindAdmin has completed without error in the running setup():
\* the transaction holds its outcome, saved the tables it found
AfterCreateOrFindAdmin ==
  apiKeySetup.pc \in {"adminKey", "monitoringKey", "commit"}

UserById(rows, id) == CHOOSE u \in rows : u.id = id

Oldest(rows, u) == \A x \in rows : u.createdAt <= x.createdAt

\* C39: after createOrFindAdmin completes without error, exactly one user
\* carries the super flag: the user it returned, with the configured admin
\* email and role admin. When several super users existed, the one kept was
\* one of them: one with the configured admin email if there was one,
\* otherwise an oldest one; every other formerly super user has role member
\* and no super flag
C39_OneSuperUserKept ==
  AfterCreateOrFindAdmin =>
    LET before == SuperUsers(apiKeySetup.saved.users)
        after == SuperUsers(apiKeySetup.users)
    IN  /\ Cardinality(after) = 1
        /\ \A u \in after : /\ u.id = apiKeySetup.adminId
                            /\ u.email = adminEmail
                            /\ u.role = "admin"
        /\ Cardinality(before) > 1 =>
             /\ \E k \in before :
                  /\ k.id = apiKeySetup.adminId
                  /\ IF \E m \in before : m.email = adminEmail
                       THEN k.email = adminEmail
                       ELSE Oldest(before, k)
             /\ \A o \in before :
                  o.id # apiKeySetup.adminId =>
                    LET now == UserById(apiKeySetup.users, o.id)
                    IN  now.role = "member" /\ ~now.super

\* three super users existed, the one with the configured email was not
\* the oldest, and it is the one kept
C39_Witness ==
  /\ apiKeySetup.pc = "adminKey"
  /\ LET before == SuperUsers(apiKeySetup.saved.users)
     IN  /\ Cardinality(before) = 3
         /\ \E k \in before : /\ k.id = apiKeySetup.adminId
                              /\ k.email = adminEmail
                              /\ ~Oldest(before, k)

\* two super users existed, none with the configured email (one differs
\* from it by case only), and the older one is kept and updated
C39_WitnessOldest ==
  /\ apiKeySetup.pc = "adminKey"
  /\ LET before == SuperUsers(apiKeySetup.saved.users)
     IN  /\ Cardinality(before) = 2
         /\ \A m \in before : m.email # adminEmail
         /\ \E m \in before : m.email = OtherCase.email
                                /\ m.id # apiKeySetup.adminId

====
